---- MODULE Spec2Model ----
(***************************************************************************)
(* Model of the dataset format checker of yolov11-seg                      *)
(* (src/dataset_utils/check_dataset.py) and of the merge script           *)
(* (src/dataset_utils/merge_labeled_to_datasets17k.py).                    *)
(*                                                                         *)
(*   SpecLabel : the label verifier check_single_label, applied to label   *)
(*               files drawn from a bounded set.                           *)
(*   Spec      : DatasetChecker.run: check_yaml, check_images_and_labels   *)
(*               (one loop iteration per split, worker results merged in   *)
(*               completion order), print_summary, the exit of main.       *)
(*   SpecSummary : print_summary on long lists of warnings and errors.     *)
(*   SpecPure    : check_single_label for images of several sizes.         *)
(*   SpecWorkers : the size of the worker pool.                            *)
(*   SpecMerge   : merge_labeled_files on a source and a target directory. *)
(*   SpecDup     : delete_duplicate_files (remove_duplicate_files.py).     *)
(*                                                                         *)
(* A label line is modelled after line.strip().split(): the sequence of    *)
(* its whitespace-separated tokens; a blank or whitespace-only line is the *)
(* empty sequence.  Floating-point values are kept in tenths.              *)
(***************************************************************************)
EXTENDS Integers, Sequences, FiniteSets, TLC

VARIABLES
    args,           \* check_single_label: the argument tuple of the call
    result,         \* check_single_label: the result dict
    trace,          \* check_single_label: the checks evaluated, in order
    lpc,            \* check_single_label: "call" before, "returned" after
    pc,             \* run(): where the orchestrator is
    yaml,           \* the descriptor file at self.yaml_path
    dataset_config, \* what check_yaml returned
    errors,         \* self.errors
    warnings,       \* self.warnings
    stats,          \* self.stats
    split,          \* index in splits of the loop of check_images_and_labels
    dir,            \* the directories of the split scanned last
    image_files,    \* image_files of the split scanned last
    label_files,    \* label_files of the split scanned last
    valid_pairs,    \* valid_pairs of the split scanned last
    tasks,          \* tasks of the split scanned last
    pending,        \* futures whose result is not merged yet (indexes of tasks)
    raises,         \* futures that hold an exception (indexes of tasks)
    printed,        \* what print_summary wrote, in order
    success,        \* what run() returned
    exit_code,      \* the exit status of the process, -1 while it runs
    workers,        \* main: the --workers argument, [given, value]
    cpus,           \* what cpu_count() returns
    num_workers,    \* self.num_workers
    wpc,            \* where the checker is with its worker pool
    disk,           \* merge_labeled_files: the source and target directories
    disk0,          \* merge_labeled_files: the directories before the call
    dry_run,        \* merge_labeled_files: the dry_run argument
    mpc,            \* merge_labeled_files: where the call is
    subdirs,        \* merge_labeled_files: sub-directories not yet visited
    subdir,         \* merge_labeled_files: the sub-directory being visited
    files,          \* merge_labeled_files: files of subdir not yet handled
    counts,         \* merge_labeled_files: the four counters
    folder,         \* delete_duplicate_files: the files under folder_path
    folder0,        \* delete_duplicate_files: the files before the call
    dup_args,       \* delete_duplicate_files: keep_first, dry_run, recursive
    dpc,            \* delete_duplicate_files: where the call is
    duplicates,     \* delete_duplicate_files: the groups found
    to_delete,      \* delete_duplicate_files: files still to delete, in order
    total_deleted,  \* delete_duplicate_files: the counter
    img_dir,        \* remove_unlabeled_images: the entries of the directory
    img_dir0,       \* remove_unlabeled_images: the directory before the call
    unl_dry_run,    \* remove_unlabeled_images: the dry_run argument
    upc,            \* remove_unlabeled_images: where the call is
    unl_files,      \* remove_unlabeled_images: image_files still to visit
    removed_count,  \* remove_unlabeled_images: the counter of removals
    kept_count,     \* remove_unlabeled_images: the counter of kept images
    dset,             \* split_annotations: the dataset directory, train/, val/
    dset0,            \* split_annotations: the directories before the call
    split_args,     \* split_annotations: dataset_dir and manual_threshold
    spc,            \* split_annotations: where the call is
    json_files,     \* split_annotations: json_files still to visit
    split_counts    \* split_annotations: manual, auto and error counters

labelVars == <<args, result, trace, lpc>>

runVars == <<pc, yaml, dataset_config, errors, warnings, stats, split, dir,
             image_files, label_files, valid_pairs, tasks, pending, raises,
             printed, success, exit_code>>

workerVars == <<workers, cpus, num_workers, wpc>>

mergeVars == <<disk, disk0, dry_run, mpc, subdirs, subdir, files, counts>>

dupVars == <<folder, folder0, dup_args, dpc, duplicates, to_delete,
             total_deleted>>

unlVars == <<img_dir, img_dir0, unl_dry_run, upc, unl_files, removed_count,
             kept_count>>

splitVars == <<dset, dset0, split_args, spc, json_files, split_counts>>

toolVars == <<dupVars, unlVars, splitVars>>

vars == <<args, result, trace, lpc, pc, yaml, dataset_config, errors,
          warnings, stats, split, dir, image_files, label_files, valid_pairs,
          tasks, pending, raises, printed, success, exit_code,
          workers, cpus, num_workers, wpc,
          disk, disk0, dry_run, mpc, subdirs, subdir, files, counts,
          folder, folder0, dup_args, dpc, duplicates, to_delete,
          total_deleted,
          img_dir, img_dir0, unl_dry_run, upc, unl_files, removed_count,
          kept_count,
          dset, dset0, split_args, spc, json_files, split_counts>>

----------------------------------------------------------------------------
(* Bounds of the model *)

MaxLines == 2       \* lines of a label file
MaxCoords == 7      \* coordinate tokens of a generated line
MaxClasses == 1     \* num_classes ranges over 0..MaxClasses
MaxFiles == 4       \* files of the dataset, all directories together
MaxRaises == 1      \* worker tasks of a split that raise
MaxSize == 2        \* img_width and img_height range over 1..MaxSize
MaxWorkers == 5     \* --workers ranges over -MaxWorkers..MaxWorkers
MaxCpus == 4        \* cpu_count() ranges over 1..MaxCpus
MaxSourceFiles == 2 \* files under the source sub-directories
MaxUnlEntries == 4  \* entries of the directory of remove_unlabeled_images
MaxShapes == 2      \* shapes of a labelme JSON file
MaxPoints == 3      \* points of a shape
MaxThreshold == 2   \* manual_threshold ranges over 1..MaxThreshold
MaxTargetFiles == 2 \* files of the target directory before the merge
MaxDupFiles == 3    \* files under the folder delete_duplicate_files scans
MaxWarnings == 21   \* warnings accumulated when print_summary is called
MaxErrors == 31     \* errors accumulated when print_summary is called
NumNames == 2       \* entries of the names field of the descriptor

----------------------------------------------------------------------------
(* Tokens: int() and float() of Python on the token strings used *)

IntTokens == {"0", "1", "2", "-1"}

FloatTokens ==
    {"0", "1", "2", "-1", "0.5", "1.5", "-0.1", "0.1", "0.2", "0.3", "nan"}

\* int(tok) succeeds
IsInt(tok) == tok \in IntTokens

\* int(tok)
IntValue(tok) ==
    CASE tok = "0" -> 0
      [] tok = "1" -> 1
      [] tok = "2" -> 2
      [] tok = "-1" -> -1

\* float(tok) succeeds
IsFloat(tok) == tok \in FloatTokens

\* float(tok): [nan, t] with t the value in tenths
FloatValue(tok) ==
    CASE tok = "0"    -> [nan |-> FALSE, t |-> 0]
      [] tok = "1"    -> [nan |-> FALSE, t |-> 10]
      [] tok = "2"    -> [nan |-> FALSE, t |-> 20]
      [] tok = "-1"   -> [nan |-> FALSE, t |-> -10]
      [] tok = "0.5"  -> [nan |-> FALSE, t |-> 5]
      [] tok = "1.5"  -> [nan |-> FALSE, t |-> 15]
      [] tok = "-0.1" -> [nan |-> FALSE, t |-> -1]
      [] tok = "0.1"  -> [nan |-> FALSE, t |-> 1]
      [] tok = "0.2"  -> [nan |-> FALSE, t |-> 2]
      [] tok = "0.3"  -> [nan |-> FALSE, t |-> 3]
      [] tok = "nan"  -> [nan |-> TRUE, t |-> 0]

\* x < c and x > c on floats, c in tenths: false when x is NaN
FloatLess(x, c) == ~x.nan /\ x.t < c
FloatGreater(x, c) == ~x.nan /\ x.t > c

----------------------------------------------------------------------------
(* Messages and the result dict *)

Msg(kind, name, line, val, idx, tok) ==
    [kind |-> kind, name |-> name, line |-> line,
     val |-> val, idx |-> idx, tok |-> tok]

\* one evaluated check: the line, the check, the coordinate index
Tr(line, op, idx) == [line |-> line, op |-> op, idx |-> idx]

NewResult ==
    [errors |-> <<>>, warnings |-> <<>>,
     is_empty |-> FALSE, is_invalid |-> FALSE]

\* what one line adds to the result
LineOut(errs, inv, tr) == [errors |-> errs, is_invalid |-> inv, trace |-> tr]

----------------------------------------------------------------------------
(* check_single_label, line by line *)

MinParts == 7

TooFewParts_Mut(parts) == Len(parts) < MinParts - 1

\* len(parts) < 7
TooFewParts(parts) == Len(parts) < MinParts

\* (len(parts)-1)//2
PointCount(parts) == (Len(parts) - 1) \div 2

ClassOutOfRange_Mut(class_id, num_classes) ==
    class_id < 0 \/ class_id > num_classes

\* class_id < 0 or class_id >= num_classes
ClassOutOfRange(class_id, num_classes) ==
    class_id < 0 \/ class_id >= num_classes

OddCount_Mut(coords) == Len(coords) % 2 = 0

\* len(coords) % 2 != 0
OddCount(coords) == Len(coords) % 2 /= 0

CoordOutOfRange_Mut(coord_val) == FloatLess(coord_val, 0)

\* coord_val < 0 or coord_val > 1
CoordOutOfRange(coord_val) ==
    FloatLess(coord_val, 0) \/ FloatGreater(coord_val, 10)

\* for i, coord in enumerate(coords): the loop from index i on.
\* raised = a ValueError left the loop, exc = the token float() refused.
RECURSIVE CoordLoop(_, _, _, _)
CoordLoop(name, line_num, coords, i) ==
    IF i >= Len(coords)
    THEN [errors |-> <<>>, is_invalid |-> FALSE, trace |-> <<>>,
          raised |-> FALSE, exc |-> ""]
    ELSE LET coord == coords[i + 1] IN
         IF ~IsFloat(coord)
         THEN [errors |-> <<>>, is_invalid |-> FALSE,
               trace |-> <<Tr(line_num, "float", i)>>,
               raised |-> TRUE, exc |-> coord]
         ELSE LET coord_val == FloatValue(coord) IN
              IF CoordOutOfRange(coord_val)
              THEN [errors |-> <<Msg("coord_range", name, line_num,
                                     coord_val.t, i, coord)>>,
                    is_invalid |-> TRUE,
                    trace |-> <<Tr(line_num, "float", i),
                                Tr(line_num, "range", i)>>,
                    raised |-> FALSE, exc |-> ""]
              ELSE LET rest == CoordLoop(name, line_num, coords, i + 1) IN
                   [rest EXCEPT !.trace = <<Tr(line_num, "float", i),
                                            Tr(line_num, "range", i)>>
                                          \o rest.trace]

\* the body of the try block for one line
TryBody(name, line_num, parts, num_classes) ==
    IF ~IsInt(parts[1])
    THEN [errors |-> <<>>, is_invalid |-> FALSE,
          trace |-> <<Tr(line_num, "int", 0)>>,
          raised |-> TRUE, exc |-> parts[1]]
    ELSE LET class_id == IntValue(parts[1])
             bad_class == ClassOutOfRange(class_id, num_classes)
             e1 == IF bad_class
                   THEN <<Msg("class_range", name, line_num,
                              class_id, num_classes - 1, "")>>
                   ELSE <<>>
             t1 == <<Tr(line_num, "int", 0), Tr(line_num, "class", 0),
                     Tr(line_num, "odd", 0)>>
             coords == Tail(parts)
         IN  IF OddCount(coords)
             THEN [errors |-> e1 \o <<Msg("odd", name, line_num,
                                          Len(coords), 0, "")>>,
                   is_invalid |-> TRUE, trace |-> t1,
                   raised |-> FALSE, exc |-> ""]
             ELSE LET c == CoordLoop(name, line_num, coords, 0) IN
                  [errors |-> e1 \o c.errors,
                   is_invalid |-> bad_class \/ c.is_invalid,
                   trace |-> t1 \o c.trace,
                   raised |-> c.raised, exc |-> c.exc]

OnValueError_Mut(errs, name, line_num, exc) ==
    <<Msg("value_error", name, line_num, 0, 0, exc)>>

\* except ValueError as e: result['errors'].append(...)
OnValueError(errs, name, line_num, exc) ==
    Append(errs, Msg("value_error", name, line_num, 0, 0, exc))

\* one iteration of "for line_num, line in enumerate(lines, 1)"
CheckLine(name, line_num, parts, num_classes) ==
    IF Len(parts) = 0
    THEN LineOut(<<>>, FALSE, <<Tr(line_num, "blank", 0)>>)
    ELSE IF TooFewParts(parts)
    THEN LineOut(<<Msg("points", name, line_num, PointCount(parts), 0, "")>>,
                 TRUE,
                 <<Tr(line_num, "blank", 0), Tr(line_num, "len", 0)>>)
    ELSE LET b == TryBody(name, line_num, parts, num_classes)
             t0 == <<Tr(line_num, "blank", 0), Tr(line_num, "len", 0)>>
         IN  IF b.raised
             THEN LineOut(OnValueError(b.errors, name, line_num, b.exc),
                          TRUE, t0 \o b.trace)
             ELSE LineOut(b.errors, b.is_invalid, t0 \o b.trace)

RECURSIVE LineLoop_Mut(_, _, _, _, _)
LineLoop_Mut(name, lines, line_num, num_classes, acc) ==
    IF line_num > Len(lines) \/ acc.result.is_invalid
    THEN acc
    ELSE LET o == CheckLine(name, line_num, lines[line_num], num_classes) IN
         LineLoop_Mut(name, lines, line_num + 1, num_classes,
                      [result |-> [acc.result EXCEPT
                                     !.errors = @ \o o.errors,
                                     !.is_invalid = @ \/ o.is_invalid],
                       trace |-> acc.trace \o o.trace])

\* the loop over the lines, from line_num on, onto the result so far
RECURSIVE LineLoop(_, _, _, _, _)
LineLoop(name, lines, line_num, num_classes, acc) ==
    IF line_num > Len(lines)
    THEN acc
    ELSE LET o == CheckLine(name, line_num, lines[line_num], num_classes) IN
         LineLoop(name, lines, line_num + 1, num_classes,
                  [result |-> [acc.result EXCEPT
                                 !.errors = @ \o o.errors,
                                 !.is_invalid = @ \/ o.is_invalid],
                   trace |-> acc.trace \o o.trace])

\* len(lines) == 0
EmptyFile(lines) == Len(lines) = 0

Unpack_Mut(a) ==
    [label_path |-> [name |-> a.name, readable |-> a.readable,
                     lines |-> a.lines],
     img_width |-> a.img_width,
     img_height |-> a.img_height,
     num_classes |-> a.img_width]

\* label_path, img_width, img_height, num_classes = args
Unpack(a) ==
    [label_path |-> [name |-> a.name, readable |-> a.readable,
                     lines |-> a.lines],
     img_width |-> a.img_width,
     img_height |-> a.img_height,
     num_classes |-> a.num_classes]

\* check_single_label with the checks it evaluated: [result, trace]
OnEmptyFile_Mut(name) ==
    [NewResult EXCEPT
        !.warnings = <<Msg("empty_label", name, 0, 0, 0, "")>>]

\* lines 62-64: the warning and the flag of an empty file
OnEmptyFile(name) ==
    [NewResult EXCEPT
        !.warnings = <<Msg("empty_label", name, 0, 0, 0, "")>>,
        !.is_empty = TRUE]

LabelRun(a) ==
    LET label_path == Unpack(a).label_path
        num_classes == Unpack(a).num_classes
    IN
    IF ~label_path.readable
    THEN [result |-> [NewResult EXCEPT
                        !.errors = <<Msg("unreadable", label_path.name,
                                         0, 0, 0, "")>>,
                        !.is_invalid = TRUE],
          trace |-> <<>>]
    ELSE IF EmptyFile(label_path.lines)
    THEN [result |-> OnEmptyFile(label_path.name), trace |-> <<>>]
    ELSE LineLoop(label_path.name, label_path.lines, 1, num_classes,
                  [result |-> NewResult, trace |-> <<>>])

check_single_label(a) == LabelRun(a).result

----------------------------------------------------------------------------
(* The label files the verifier is applied to *)

ScenarioA == <<"0", "0.1", "0.1", "0.2", "0.2", "0.3", "0.3">>
ScenarioB == <<"2", "0.1", "0.1", "0.2", "0.2", "0.3", "0.3">>
ScenarioC == <<"0", "0.1", "0.1", "0.2", "0.2", "0.3">>
ScenarioD == <<"0", "-0.1", "0.1", "0.2", "0.2", "0.3", "0.3">>

ClassTokens == {"0", "1", "2", "-1", "0.5", "abc"}
CoordTokens == {"0", "1", "0.5", "1.5", "-0.1", "abc", "nan"}
FillTokens == {"0.5", "1.5"}

\* class token c, n coordinates equal to fill, but t at position p
MakeLine(c, n, fill, p, t) ==
    <<c>> \o [i \in 1..n |-> IF i = p THEN t ELSE fill]

LineSet ==
    {<<>>, ScenarioA, ScenarioB, ScenarioC, ScenarioD}
    \cup {MakeLine(c, n, fill, p, t) :
            c \in ClassTokens, n \in 0..MaxCoords, fill \in FillTokens,
            p \in 1..MaxCoords, t \in CoordTokens}

\* the lines around the generated one
PlainLines == {<<>>, ScenarioA, <<"0", "0.5">>}

PlainSeqs(k) == UNION {[1..m -> PlainLines] : m \in 0..k}

FileSet ==
    {<<>>}
    \cup {pre \o <<l>> \o post :
            l \in LineSet,
            pre \in PlainSeqs(MaxLines - 1),
            post \in PlainSeqs(MaxLines - 1)}

\* the task tuple for label file name of the given content; the image is
\* one pixel wide and high where its size is not the subject
Args(name, readable, lines, num_classes) ==
    [name |-> name, readable |-> readable, lines |-> lines,
     img_width |-> 1, img_height |-> 1, num_classes |-> num_classes]

ArgSet ==
    {Args("a.txt", TRUE, f, n) :
        f \in {g \in FileSet : Len(g) <= MaxLines}, n \in 0..MaxClasses}
    \cup {Args("a.txt", FALSE, <<>>, n) : n \in 0..MaxClasses}

ImageSizes == 1..MaxSize

\* files of at most one line, for images of every size
PureArgSet ==
    {[a EXCEPT !.img_width = w, !.img_height = h] :
        a \in {Args("a.txt", TRUE, <<l>>, n) :
                    l \in LineSet, n \in 0..MaxClasses}
               \cup {Args("a.txt", TRUE, <<>>, n) : n \in 0..MaxClasses}
               \cup {Args("a.txt", FALSE, <<>>, n) : n \in 0..MaxClasses},
        w \in ImageSizes, h \in ImageSizes}

----------------------------------------------------------------------------
(* File names: Path.stem, Path.suffix, str.lower *)

ImageDirFiles == {"a.jpg", "a.PNG", "b.jpg", "n.tif"}
LabelDirFiles == {"a.txt", "b.txt"}

Stem(f) ==
    CASE f \in {"a.jpg", "a.PNG", "a.txt"} -> "a"
      [] f \in {"b.jpg", "b.txt"} -> "b"
      [] f = "n.tif" -> "n"

Suffix(f) ==
    CASE f \in {"a.jpg", "b.jpg"} -> ".jpg"
      [] f = "a.PNG" -> ".PNG"
      [] f = "n.tif" -> ".tif"
      [] f \in LabelDirFiles -> ".txt"

Lower(sfx) == IF sfx = ".PNG" THEN ".png" ELSE sfx

\* stem + '.txt'
LabelName(stem) ==
    CASE stem = "a" -> "a.txt"
      [] stem = "b" -> "b.txt"
      [] stem = "n" -> "n.txt"

image_extensions == {".jpg", ".jpeg", ".png", ".bmp", ".gif"}

IsImageFile_Mut(f) == Suffix(f) \in image_extensions

\* f.suffix.lower() in image_extensions
IsImageFile(f) == Lower(Suffix(f)) \in image_extensions

\* dataset_config[split].replace('images', 'labels')
ReplaceImages(v) ==
    CASE v = "images/train" -> "labels/train"
      [] v = "images/val" -> "labels/val"
      [] OTHER -> v

----------------------------------------------------------------------------
(* The descriptor file and the directories of a split *)

splits == <<"train", "val">>

\* the content of a label file, as its lines
LabelLines(content) ==
    CASE content = "empty" -> <<>>
      [] content = "valid" -> <<ScenarioA>>
      [] content = "bad" -> <<ScenarioA, <<"0", "0.5">>, ScenarioD>>

NamesValues ==
    {[kind |-> "dict", n |-> NumNames], [kind |-> "list", n |-> NumNames]}

\* the mappings yaml.safe_load can return: a function from the keys present
DictSet ==
    UNION {
      {[k \in keys |->
          CASE k = "path" -> root
            [] k = "train" -> tr
            [] k = "val" -> va
            [] k = "names" -> nm] :
         root \in (IF "path" \in keys
                   THEN {[exists |-> TRUE], [exists |-> FALSE]}
                   ELSE {[exists |-> FALSE]}),
         tr \in (IF "train" \in keys THEN {"", "images/train"} ELSE {""}),
         va \in (IF "val" \in keys THEN {"", "images/val", "val"}
                 ELSE {""}),
         nm \in (IF "names" \in keys THEN NamesValues
                 ELSE {[kind |-> "dict", n |-> 0]})} :
      keys \in SUBSET {"path", "train", "val", "names"}}

NoDict == [k \in {} |-> ""]

\* the descriptor file: absent, unparsable, empty (safe_load gives None) or
\* holding a mapping
YamlSet ==
    {[exists |-> FALSE, parses |-> FALSE, none |-> TRUE, d |-> NoDict],
     [exists |-> TRUE, parses |-> FALSE, none |-> TRUE, d |-> NoDict],
     [exists |-> TRUE, parses |-> TRUE, none |-> TRUE, d |-> NoDict]}
    \cup {[exists |-> TRUE, parses |-> TRUE, none |-> FALSE, d |-> d] :
            d \in DictSet}

None == [none |-> TRUE, d |-> NoDict]

NoDir ==
    [img_exists |-> FALSE, label_exists |-> FALSE, files |-> {},
     broken |-> {}, labels |-> NoDict]

\* label directories: a.txt and b.txt, each with some content
LabelDirs ==
    UNION {[names -> {"empty", "valid", "bad"}] :
             names \in SUBSET LabelDirFiles}

\* the number of files in the directories d
FileCount(d) == Cardinality(d.files) + Cardinality(DOMAIN d.labels)

\* the image and label directory of a split, below a root that exists or
\* not, holding at most room files; same: the two are one directory
DirSet(root_exists, room, same) ==
    {NoDir}
    \cup (IF root_exists
          THEN {d \in {[img_exists |-> TRUE, label_exists |-> le,
                        files |-> fs, broken |-> br, labels |-> l] :
                         le \in BOOLEAN,
                         fs \in SUBSET ImageDirFiles,
                         br \in {{}, {"a.jpg"}},
                         l \in LabelDirs} :
                  /\ d.broken \subseteq d.files
                  /\ FileCount(d) <= room
                  /\ ~d.label_exists => (DOMAIN d.labels = {} /\ d.broken = {})
                  \* a label without image is never opened: one content
                  /\ \A l \in DOMAIN d.labels :
                        (\A f \in d.files : ~IsImageFile(f)
                                              \/ Stem(f) /= Stem(l))
                            => d.labels[l] = "valid"
                  /\ same => d.label_exists}
          ELSE {})

\* the orders in which a directory listing can return the files of S
Listings(S) ==
    {f \in [1..Cardinality(S) -> S] :
        \A i, j \in 1..Cardinality(S) : f[i] = f[j] => i = j}

NewStats ==
    [total_images |-> 0, total_labels |-> 0, missing_labels |-> 0,
     missing_images |-> 0, invalid_labels |-> 0, empty_labels |-> 0]

----------------------------------------------------------------------------
(* DatasetChecker.check_yaml *)

required_fields == <<"path", "train", "names">>

\* for field in required_fields: if field not in data: errors.append(...)
MissingFieldErrors(data) ==
    LET miss == SelectSeq(required_fields, LAMBDA f : f \notin DOMAIN data)
    IN  [i \in 1..Len(miss) |-> Msg("yaml_missing_field", miss[i], 0, 0, 0, "")]

PathErrors(data) ==
    IF "path" \in DOMAIN data /\ ~data["path"].exists
    THEN <<Msg("root_missing", "path", 0, 0, 0, "")>>
    ELSE <<>>

NamesErrors(data) ==
    IF "names" \in DOMAIN data /\ data["names"].kind /= "dict"
    THEN <<Msg("names_format", "names", 0, 0, 0, "")>>
    ELSE <<>>

CheckYaml ==
    /\ pc = "start"
    /\ \/ /\ ~yaml.exists
          /\ errors' = Append(errors, Msg("yaml_absent", "yaml", 0, 0, 0, ""))
          /\ dataset_config' = None
          /\ pc' = "yaml_done"
       \/ /\ yaml.exists /\ ~yaml.parses
          /\ errors' = Append(errors, Msg("yaml_unreadable", "yaml", 0, 0, 0, ""))
          /\ dataset_config' = None
          /\ pc' = "yaml_done"
       \/ \* "field not in data" with data = None: TypeError
          /\ yaml.exists /\ yaml.parses /\ yaml.none
          /\ pc' = "crashed"
          /\ UNCHANGED <<errors, dataset_config>>
       \/ /\ yaml.exists /\ yaml.parses /\ ~yaml.none
          /\ errors' = errors \o MissingFieldErrors(yaml.d)
                              \o PathErrors(yaml.d) \o NamesErrors(yaml.d)
          /\ dataset_config' = [none |-> FALSE, d |-> yaml.d]
          /\ pc' = "yaml_done"
    /\ UNCHANGED <<yaml, warnings, stats, split, dir, image_files, label_files,
                   valid_pairs, tasks, pending, success>>
    /\ UNCHANGED <<raises, printed, exit_code>>
    /\ UNCHANGED <<labelVars, workerVars, mergeVars, toolVars>>

----------------------------------------------------------------------------
(* DatasetChecker.check_images_and_labels *)

\* where the loop goes after the split at index s
AfterSplit(s) == IF s >= Len(splits) THEN "summary" ELSE "scan"

\* lines 187-197: up to the loop over the splits
BeginCheckImagesAndLabels ==
    /\ pc = "yaml_done"
    /\ \/ /\ dataset_config.none
          /\ pc' = "summary"
       \/ \* dataset_config['path'], dataset_config['names']: KeyError
          /\ ~dataset_config.none
          /\ {"path", "names"} \ DOMAIN dataset_config.d /= {}
          /\ pc' = "crashed"
       \/ /\ ~dataset_config.none
          /\ {"path", "names"} \subseteq DOMAIN dataset_config.d
          /\ pc' = "scan"
    /\ UNCHANGED <<yaml, dataset_config, errors, warnings, stats, split, dir,
                   image_files, label_files, valid_pairs, tasks, pending,
                   success>>
    /\ UNCHANGED <<raises, printed, exit_code>>
    /\ UNCHANGED <<labelVars, workerVars, mergeVars, toolVars>>

NotConfigured_Mut(config, name) == name \notin DOMAIN config

\* split not in dataset_config or not dataset_config[split]
NotConfigured(config, name) ==
    IF name \notin DOMAIN config THEN TRUE ELSE config[name] = ""

\* lines 200-202
SkipSplit ==
    /\ pc = "scan"
    /\ NotConfigured(dataset_config.d, splits[split])
    /\ warnings' = Append(warnings,
                          Msg("not_configured", splits[split], 0, 0, 0, ""))
    /\ split' = split + 1
    /\ pc' = AfterSplit(split)
    /\ UNCHANGED <<yaml, dataset_config, errors, stats, dir, image_files,
                   label_files, valid_pairs, tasks, pending, success>>
    /\ UNCHANGED <<raises, printed, exit_code>>
    /\ UNCHANGED <<labelVars, workerVars, mergeVars, toolVars>>

HasLabel_Mut(d, img) == DOMAIN d.labels /= {}

\* label_dir / (img_path.stem + '.txt') exists
HasLabel(d, img) == LabelName(Stem(img)) \in DOMAIN d.labels

MissingLabelErrors_Mut(d, imgs) ==
    LET miss == SelectSeq(imgs, LAMBDA f : ~HasLabel(d, f))
    IN  IF miss = <<>> THEN <<>>
        ELSE <<Msg("missing_label", miss[1], 0, 0, 0, "")>>

\* lines 245-249
MissingLabelErrors(d, imgs) ==
    LET miss == SelectSeq(imgs, LAMBDA f : ~HasLabel(d, f))
    IN  [i \in 1..Len(miss) |-> Msg("missing_label", miss[i], 0, 0, 0, "")]

\* lines 252-256
ValidPairs(d, imgs) ==
    LET have == SelectSeq(imgs, LAMBDA f : HasLabel(d, f))
    IN  [i \in 1..Len(have) |-> <<have[i], LabelName(Stem(have[i]))>>]

\* get_image_size_fast(img_path) is None
CannotOpen(d, img) == img \in d.broken

\* lines 265-274: the errors and the tasks
OpenErrors(d, pairs) ==
    LET bad == SelectSeq(pairs, LAMBDA p : CannotOpen(d, p[1]))
    IN  [i \in 1..Len(bad) |-> Msg("cannot_open", bad[i][1], 0, 0, 0, "")]

Tasks(d, pairs) ==
    LET good == SelectSeq(pairs, LAMBDA p : ~CannotOpen(d, p[1]))
    IN  [i \in 1..Len(good) |-> good[i][2]]

\* the futures that will hold an exception instead of a result: any at most
\* MaxRaises of the n submitted tasks
RaiseSets(n) == {r \in SUBSET (1..n) : Cardinality(r) <= MaxRaises}

\* lines 204-278 for a configured split: the directories are read and the
\* tasks submitted
ScanSplit ==
    /\ pc = "scan"
    /\ ~NotConfigured(dataset_config.d, splits[split])
    /\ \E d \in DirSet(dataset_config.d["path"].exists,
                        MaxFiles - FileCount(dir),
                        ReplaceImages(dataset_config.d[splits[split]])
                            = dataset_config.d[splits[split]]) :
       \E listing \in Listings(d.files), labs \in Listings(DOMAIN d.labels) :
        LET imgs == SelectSeq(listing, IsImageFile)
            pairs == ValidPairs(d, imgs)
        IN
        /\ dir' = d
        /\ IF ~d.img_exists
           THEN /\ errors' = Append(errors, Msg("no_image_dir", splits[split],
                                                0, 0, 0, ""))
                /\ split' = split + 1
                /\ pc' = AfterSplit(split)
                /\ image_files' = <<>> /\ label_files' = <<>>
                /\ valid_pairs' = <<>> /\ tasks' = <<>> /\ pending' = {}
                /\ raises' = {}
                /\ UNCHANGED stats
           ELSE IF ~d.label_exists
           THEN /\ errors' = Append(errors, Msg("no_label_dir", splits[split],
                                                0, 0, 0, ""))
                /\ split' = split + 1
                /\ pc' = AfterSplit(split)
                /\ image_files' = <<>> /\ label_files' = <<>>
                /\ valid_pairs' = <<>> /\ tasks' = <<>> /\ pending' = {}
                /\ raises' = {}
                /\ UNCHANGED stats
           ELSE IF Len(imgs) = 0
           THEN /\ errors' = Append(errors, Msg("no_images", splits[split],
                                                0, 0, 0, ""))
                /\ stats' = [stats EXCEPT !.total_images = @ + Len(imgs)]
                /\ split' = split + 1
                /\ pc' = AfterSplit(split)
                /\ image_files' = imgs /\ label_files' = <<>>
                /\ valid_pairs' = <<>> /\ tasks' = <<>> /\ pending' = {}
                /\ raises' = {}
           ELSE /\ errors' = errors \o MissingLabelErrors(d, imgs)
                                    \o OpenErrors(d, pairs)
                /\ stats' = [stats EXCEPT
                               !.total_images = @ + Len(imgs),
                               !.missing_labels =
                                    @ + Len(MissingLabelErrors(d, imgs)),
                               !.total_labels = @ + Len(pairs)]
                /\ image_files' = imgs
                /\ label_files' = labs
                /\ valid_pairs' = pairs
                /\ tasks' = Tasks(d, pairs)
                /\ pending' = 1..Len(Tasks(d, pairs))
                /\ raises' \in RaiseSets(Len(Tasks(d, pairs)))
                /\ pc' = "pool"
                /\ UNCHANGED split
    /\ UNCHANGED <<yaml, dataset_config, warnings, success, printed, exit_code>>
    /\ UNCHANGED <<labelVars, workerVars, mergeVars, toolVars>>

\* the argument tuple of the task for label file l
TaskArgs(l) ==
    Args(l, TRUE, LabelLines(dir.labels[l]), dataset_config.d["names"].n)

\* the error recorded for a future that raised; the text carries the
\* exception, not the label file
TaskFailed == Msg("task_failed", "", 0, 0, 0, "")

OnException_Mut(errs) == errs

\* except Exception as e: self.errors.append(...)
OnException(errs) == Append(errs, TaskFailed)

\* what the merge of a result reads and writes
Report == [errors |-> errors, warnings |-> warnings, stats |-> stats]

MergeOne_Mut(acc, i) ==
    LET r == check_single_label(TaskArgs(tasks[i])) IN
    IF i \in raises
    THEN [acc EXCEPT !.errors = OnException(@)]
    ELSE [errors |-> acc.errors \o r.errors,
          warnings |-> acc.warnings \o r.warnings,
          stats |-> [acc.stats EXCEPT
                       !.empty_labels = IF r.is_empty THEN @ + 1 ELSE @,
                       !.invalid_labels =
                            IF r.is_invalid /\ Len(acc.errors) = 0
                            THEN @ + 1 ELSE @]]

\* lines 281-290: the body of the loop over as_completed for future i
MergeOne(acc, i) ==
    LET r == check_single_label(TaskArgs(tasks[i])) IN
    IF i \in raises
    THEN \* future.result() raises: except Exception (lines 289-290)
         [acc EXCEPT !.errors = OnException(@)]
    ELSE [errors |-> acc.errors \o r.errors,
          warnings |-> acc.warnings \o r.warnings,
          stats |-> [acc.stats EXCEPT
                       !.empty_labels = IF r.is_empty THEN @ + 1 ELSE @,
                       !.invalid_labels = IF r.is_invalid THEN @ + 1 ELSE @]]

\* lines 280-290: a future completes and its result is merged
MergeResult ==
    /\ pc = "pool"
    /\ \E i \in pending :
        LET m == MergeOne(Report, i) IN
        /\ errors' = m.errors
        /\ warnings' = m.warnings
        /\ stats' = m.stats
        /\ pending' = pending \ {i}
    /\ UNCHANGED <<pc, yaml, dataset_config, split, dir, image_files,
                   label_files, valid_pairs, tasks, raises, success, printed,
                   exit_code>>
    /\ UNCHANGED <<labelVars, workerVars, mergeVars, toolVars>>

IsOrphan_Mut(imgs, l) == \A i \in 1..Len(imgs) : imgs[i] /= l

\* label_path.stem not in image_stem_to_path
IsOrphan(imgs, l) == \A i \in 1..Len(imgs) : Stem(imgs[i]) /= Stem(l)

\* lines 292-297
OrphanWarnings(imgs, labs) ==
    LET orph == SelectSeq(labs, LAMBDA l : IsOrphan(imgs, l))
    IN  [i \in 1..Len(orph) |-> Msg("missing_image", orph[i], 0, 0, 0, "")]

\* lines 292-297, once every result of the split is merged
FinishSplit ==
    /\ pc = "pool"
    /\ pending = {}
    /\ warnings' = warnings \o OrphanWarnings(image_files, label_files)
    /\ stats' = [stats EXCEPT !.missing_images =
                    @ + Len(OrphanWarnings(image_files, label_files))]
    /\ split' = split + 1
    /\ pc' = AfterSplit(split)
    /\ UNCHANGED <<yaml, dataset_config, errors, dir, image_files, label_files,
                   valid_pairs, tasks, pending, success>>
    /\ UNCHANGED <<raises, printed, exit_code>>
    /\ UNCHANGED <<labelVars, workerVars, mergeVars, toolVars>>

----------------------------------------------------------------------------
(* DatasetChecker.print_summary and the return of run *)

\* one printed item: a counter, a message, a truncation notice or a banner
Out(kind, msg, n) == [kind |-> kind, msg |-> msg, n |-> n]

NoMsg == Msg("", "", 0, 0, 0, "")

WarningLimit == 20

ErrorLimit == 30

First(seq, n) == SubSeq(seq, 1, IF Len(seq) < n THEN Len(seq) ELSE n)

\* lines 305-311
StatLines(st) ==
    << Out("total_images", NoMsg, st.total_images),
       Out("total_labels", NoMsg, st.total_labels),
       Out("missing_labels", NoMsg, st.missing_labels),
       Out("missing_images", NoMsg, st.missing_images),
       Out("invalid_labels", NoMsg, st.invalid_labels),
       Out("empty_labels", NoMsg, st.empty_labels) >>

Shown_Mut(kind, seq, limit) ==
    [i \in 1..Len(First(seq, limit + 1)) |-> Out(kind, seq[i], 0)]

\* for m in seq[:limit]: print(m)
Shown(kind, seq, limit) ==
    [i \in 1..Len(First(seq, limit)) |-> Out(kind, seq[i], 0)]

\* if len(seq) > limit: print(... len(seq) - limit ...)
More(kind, seq, limit) ==
    IF Len(seq) > limit THEN <<Out(kind, NoMsg, Len(seq) - limit)>> ELSE <<>>

\* lines 313-318 and 320-325
Section(head, item, more, seq, limit) ==
    IF Len(seq) > 0
    THEN <<Out(head, NoMsg, Len(seq))>> \o Shown(item, seq, limit)
                                       \o More(more, seq, limit)
    ELSE <<>>

\* lines 327-332
Banner(errs) ==
    IF Len(errs) = 0 THEN <<Out("pass", NoMsg, 0)>>
                     ELSE <<Out("fail", NoMsg, 0)>>

\* lines 299-332
SummaryOutput(st, warns, errs) ==
    StatLines(st)
        \o Section("warnings", "warning", "more_warnings", warns, WarningLimit)
        \o Section("errors", "error", "more_errors", errs, ErrorLimit)
        \o Banner(errs)

RunResult_Mut(errs) == Len(errs) <= 1

\* return len(self.errors) == 0
RunResult(errs) == Len(errs) = 0

\* run, lines 346-348: print_summary, then the return
PrintSummary ==
    /\ pc = "summary"
    /\ printed' = SummaryOutput(stats, warnings, errors)
    /\ success' = RunResult(errors)
    /\ pc' = "done"
    /\ UNCHANGED <<yaml, dataset_config, errors, warnings, stats, split, dir,
                   image_files, label_files, valid_pairs, tasks, pending,
                   raises, exit_code>>
    /\ UNCHANGED <<labelVars, workerVars, mergeVars, toolVars>>

\* exit(0 if success else 1)
ExitCode(s) == IF s THEN 0 ELSE 1

\* main, line 373
MainExit ==
    /\ pc = "done"
    /\ exit_code' = ExitCode(success)
    /\ pc' = "exited"
    /\ UNCHANGED <<yaml, dataset_config, errors, warnings, stats, split, dir,
                   image_files, label_files, valid_pairs, tasks, pending,
                   raises, printed, success>>
    /\ UNCHANGED <<labelVars, workerVars, mergeVars, toolVars>>

\* main, line 370: an exception leaves run; the interpreter prints the
\* traceback and ends the process with status 1
Traceback ==
    /\ pc = "crashed"
    /\ exit_code' = 1
    /\ pc' = "aborted"
    /\ UNCHANGED <<yaml, dataset_config, errors, warnings, stats, split, dir,
                   image_files, label_files, valid_pairs, tasks, pending,
                   raises, printed, success>>
    /\ UNCHANGED <<labelVars, workerVars, mergeVars, toolVars>>

----------------------------------------------------------------------------
(* DatasetChecker.__init__ and the worker pool *)

\* args.workers: None without the option, else the integer given
WorkerArgs ==
    {[given |-> FALSE, value |-> 0]}
    \cup {[given |-> TRUE, value |-> v] : v \in (0 - MaxWorkers)..MaxWorkers}

\* max(1, cpu_count() - 1)
DefaultWorkers(c) == IF c - 1 > 1 THEN c - 1 ELSE 1

\* num_workers or max(1, cpu_count() - 1): None and 0 are falsy
NumWorkers(w, c) ==
    IF w.given /\ w.value /= 0 THEN w.value ELSE DefaultWorkers(c)

\* line 134
InitChecker ==
    /\ wpc = "init"
    /\ num_workers' = NumWorkers(workers, cpus)
    /\ wpc' = "ready"
    /\ UNCHANGED <<workers, cpus>>
    /\ UNCHANGED <<labelVars, runVars, mergeVars, toolVars>>

\* line 277: ProcessPoolExecutor raises ValueError for max_workers <= 0,
\* outside every try block
CreatePool ==
    /\ wpc = "ready"
    /\ wpc' = (IF num_workers <= 0 THEN "crashed" ELSE "pool")
    /\ UNCHANGED <<workers, cpus, num_workers>>
    /\ UNCHANGED <<labelVars, runVars, mergeVars, toolVars>>

WorkerIdle ==
    /\ workers = [given |-> FALSE, value |-> 0]
    /\ cpus = 1
    /\ num_workers = 1
    /\ wpc = "idle"

----------------------------------------------------------------------------
(* merge_labeled_files (merge_labeled_to_datasets17k.py) *)

\* A file or directory name is the sequence of the parts that "_" joins:
\* <<"s1", "x">> is the name s1_x.
SubdirNames == {<<"s1">>, <<"s2">>}
FileNames == {<<"x">>, <<"s1", "x">>}

\* file contents; c1 and c2 have the same length
Contents == {"c1", "c2", "c3"}

\* st_size
Size(c) ==
    CASE c = "c1" -> 1
      [] c = "c2" -> 1
      [] c = "c3" -> 2
      [] c = "partial" -> 0

\* the files a directory can hold: a function from their names to contents
DirFiles == UNION {[names -> Contents] : names \in SUBSET FileNames}

NoFiles == [n \in {} |-> "c1"]

\* the source directory: absent, or with both sub-directories
SourceSet ==
    {[exists |-> FALSE, dirs |-> [d \in {} |-> NoFiles]]}
    \cup {[exists |-> TRUE, dirs |-> ds] :
            ds \in {t \in [SubdirNames -> DirFiles] :
                        Cardinality(DOMAIN t[<<"s1">>])
                          + Cardinality(DOMAIN t[<<"s2">>]) <= MaxSourceFiles}}

\* the target directory: absent, or with some files
TargetSet ==
    {[exists |-> FALSE, files |-> NoFiles]}
    \cup {[exists |-> TRUE, files |-> fs] :
            fs \in {t \in DirFiles : Cardinality(DOMAIN t) <= MaxTargetFiles}}

\* f"{subdir.name}_{file_path.name}"
NewName(sub, name) == sub \o name

\* the function f with name n set to content c
Put(f, n, c) == [m \in DOMAIN f \cup {n} |-> IF m = n THEN c ELSE f[m]]

Copy2_Mut(d, sub, name, tname) ==
    [source |-> [d.source EXCEPT !.dirs[sub] =
                    [m \in DOMAIN @ \ {name} |-> @[m]]],
     target |-> [d.target EXCEPT !.files =
                    Put(@, tname, d.source.dirs[sub][name])]]

\* shutil.copy2(file_path, target_path)
Copy2(d, sub, name, tname) ==
    [d EXCEPT !.target.files = Put(@, tname, d.source.dirs[sub][name])]

\* a copy that fails midway leaves a truncated target file
PartialCopy(d, tname) ==
    [d EXCEPT !.target.files = Put(@, tname, "partial")]

\* lines 29-66
MergeBegin ==
    /\ mpc = "start"
    /\ IF ~disk.source.exists
       THEN /\ mpc' = "done"
            /\ UNCHANGED <<disk, subdirs, counts>>
       ELSE /\ disk' = IF dry_run THEN disk
                       ELSE [disk EXCEPT !.target.exists = TRUE]
            /\ subdirs' \in Listings(DOMAIN disk.source.dirs)
            /\ counts' = [counts EXCEPT !.total =
                            Cardinality(DOMAIN disk.source.dirs[<<"s1">>])
                            + Cardinality(DOMAIN disk.source.dirs[<<"s2">>])]
            /\ mpc' = "loop"
    /\ UNCHANGED <<disk0, dry_run, subdir, files>>
    /\ UNCHANGED <<labelVars, runVars, workerVars, toolVars>>

\* lines 70-74: the next sub-directory is listed
EnterSubdir ==
    /\ mpc = "loop"
    /\ files = <<>>
    /\ subdirs /= <<>>
    /\ subdir' = Head(subdirs)
    /\ subdirs' = Tail(subdirs)
    /\ files' \in Listings(DOMAIN disk.source.dirs[Head(subdirs)])
    /\ UNCHANGED <<disk, disk0, dry_run, mpc, counts>>
    /\ UNCHANGED <<labelVars, runVars, workerVars, toolVars>>

\* target_path.exists()
TargetHas(d, name) == d.target.exists /\ name \in DOMAIN d.target.files

\* target_path.stat().st_size != file_path.stat().st_size
SizeDiffers(d, sub, name) ==
    Size(d.target.files[name]) /= Size(d.source.dirs[sub][name])

\* lines 76-105: one file of the sub-directory
MergeFile ==
    /\ mpc = "loop"
    /\ files /= <<>>
    /\ LET name == Head(files)
           collides == TargetHas(disk, name)
           renames == IF collides THEN SizeDiffers(disk, subdir, name)
                      ELSE FALSE
           tname == IF renames THEN NewName(subdir, name) ELSE name
       IN
       IF collides /\ ~renames
       THEN /\ counts' = [counts EXCEPT !.skipped = @ + 1]
            /\ UNCHANGED disk
       ELSE IF dry_run
       THEN /\ counts' = [counts EXCEPT
                            !.renamed = IF renames THEN @ + 1 ELSE @,
                            !.copied = @ + 1]
            /\ UNCHANGED disk
       ELSE \/ /\ disk' = Copy2(disk, subdir, name, tname)
               /\ counts' = [counts EXCEPT
                               !.renamed = IF renames THEN @ + 1 ELSE @,
                               !.copied = @ + 1]
            \/ \* except Exception: the copy failed
               /\ disk' \in {disk, PartialCopy(disk, tname)}
               /\ counts' = [counts EXCEPT
                               !.renamed = IF renames THEN @ + 1 ELSE @]
    /\ files' = Tail(files)
    /\ UNCHANGED <<disk0, dry_run, mpc, subdirs, subdir>>
    /\ UNCHANGED <<labelVars, runVars, workerVars, toolVars>>

\* lines 107-124
MergeEnd ==
    /\ mpc = "loop"
    /\ files = <<>>
    /\ subdirs = <<>>
    /\ mpc' = "done"
    /\ UNCHANGED <<disk, disk0, dry_run, subdirs, subdir, files, counts>>
    /\ UNCHANGED <<labelVars, runVars, workerVars, toolVars>>

NewCounts == [total |-> 0, copied |-> 0, skipped |-> 0, renamed |-> 0]

MergeIdle ==
    /\ disk = [source |-> [exists |-> FALSE, dirs |-> [d \in {} |-> NoFiles]],
               target |-> [exists |-> FALSE, files |-> NoFiles]]
    /\ disk0 = disk
    /\ dry_run = FALSE
    /\ mpc = "idle"
    /\ subdirs = <<>>
    /\ subdir = <<>>
    /\ files = <<>>
    /\ counts = NewCounts

----------------------------------------------------------------------------
(* delete_duplicate_files (remove_duplicate_files.py) *)

\* paths under folder_path: two files of the folder, two of a sub-folder
TopPaths == {"a", "b"}
DeepPaths == {"sub/c", "sub/d"}

\* a file: its bytes, and whether open(file_path, 'rb') succeeds
FileKinds ==
    {[content |-> c, readable |-> TRUE] : c \in Contents}
    \cup {[content |-> "c1", readable |-> FALSE]}

FolderSet ==
    UNION {[ps -> FileKinds] :
            ps \in {q \in SUBSET (TopPaths \cup DeepPaths) :
                        Cardinality(q) <= MaxDupFiles}}

\* hashlib.md5 of the bytes: a digest is shorter than the files it stands
\* for, c1 and c2 are two contents with the same digest
Md5(c) ==
    CASE c = "c1" -> "d1"
      [] c = "c2" -> "d1"
      [] c = "c3" -> "d3"

\* calculate_file_hash: the digest, or None for a file that cannot be read
NoHash == "None"
calculate_file_hash(f) == IF f.readable THEN Md5(f.content) ELSE NoHash

\* folder.rglob('*') if recursive else folder.glob('*'), files only
Scanned(fo, recursive) ==
    IF recursive THEN DOMAIN fo ELSE DOMAIN fo \cap TopPaths

\* hash_dict[file_hash] after the scan in order listing
HashGroup(fo, listing, h) ==
    SelectSeq(listing, LAMBDA q : calculate_file_hash(fo[q]) = h)

\* the keys of hash_dict in insertion order: the paths whose digest was not
\* seen before them
FirstOfGroup(fo, listing) ==
    SelectSeq(listing,
              LAMBDA q : /\ calculate_file_hash(fo[q]) /= NoHash
                         /\ HashGroup(fo, listing,
                                      calculate_file_hash(fo[q]))[1] = q)

\* find_duplicate_files: the groups with more than one file
find_duplicate_files(fo, listing) ==
    LET firsts == FirstOfGroup(fo, listing)
        groups == [i \in 1..Len(firsts) |->
                     HashGroup(fo, listing, calculate_file_hash(fo[firsts[i]]))]
    IN  SelectSeq(groups, LAMBDA g : Len(g) > 1)

\* file_group[1:] if keep_first else file_group[:-1]
FilesToDelete(file_group, keep_first) ==
    IF keep_first THEN Tail(file_group)
    ELSE SubSeq(file_group, 1, Len(file_group) - 1)

RECURSIVE Flatten(_)
Flatten(seqs) == IF seqs = <<>> THEN <<>> ELSE Head(seqs) \o Flatten(Tail(seqs))

\* lines 78-103: the scan, and the files the loop over the groups will
\* delete, group after group
DupFind ==
    /\ dpc = "start"
    /\ \E listing \in Listings(Scanned(folder, dup_args.recursive)) :
        LET dups == find_duplicate_files(folder, listing) IN
        /\ duplicates' = dups
        /\ to_delete' = Flatten([i \in 1..Len(dups) |->
                                  FilesToDelete(dups[i], dup_args.keep_first)])
        /\ dpc' = IF dups = <<>> THEN "done" ELSE "delete"
    /\ UNCHANGED <<folder, folder0, dup_args, total_deleted>>
    /\ UNCHANGED <<labelVars, runVars, workerVars, mergeVars, unlVars,
                 splitVars>>

\* the folder without the file at path q
Unlink(fo, q) == [r \in DOMAIN fo \ {q} |-> fo[r]]

\* lines 106-118: one file of files_to_delete
DupDelete ==
    /\ dpc = "delete"
    /\ to_delete /= <<>>
    /\ IF dup_args.dry_run
       THEN UNCHANGED <<folder, total_deleted>>
       ELSE \/ /\ folder' = Unlink(folder, Head(to_delete))
               /\ total_deleted' = total_deleted + 1
            \/ \* file_path.unlink() raises
               UNCHANGED <<folder, total_deleted>>
    /\ to_delete' = Tail(to_delete)
    /\ UNCHANGED <<folder0, dup_args, dpc, duplicates>>
    /\ UNCHANGED <<labelVars, runVars, workerVars, mergeVars, unlVars,
                 splitVars>>

\* lines 120-127
DupEnd ==
    /\ dpc = "delete"
    /\ to_delete = <<>>
    /\ dpc' = "done"
    /\ UNCHANGED <<folder, folder0, dup_args, duplicates, to_delete,
                   total_deleted>>
    /\ UNCHANGED <<labelVars, runVars, workerVars, mergeVars, unlVars,
                 splitVars>>

----------------------------------------------------------------------------
(* remove_no_detect_image.py: delete the images without labelme annotation *)

IMAGE_EXTENSIONS ==
    {".jpg", ".jpeg", ".png", ".bmp", ".gif", ".tiff", ".webp"}

\* the names an entry of the directory can have
UnlNames == {"p.jpg", "p.PNG", "q.tiff", "r.tif", "p.json", "q.json"}

\* Path.suffix
UnlSuffix(n) ==
    CASE n = "p.jpg" -> ".jpg"
      [] n = "p.PNG" -> ".PNG"
      [] n = "q.tiff" -> ".tiff"
      [] n = "r.tif" -> ".tif"
      [] n \in {"p.json", "q.json"} -> ".json"

\* image_path.with_suffix('.json')
WithSuffixJson(n) ==
    CASE n \in {"p.jpg", "p.PNG", "p.json"} -> "p.json"
      [] n \in {"q.tiff", "q.json"} -> "q.json"
      [] n = "r.tif" -> "r.json"

\* an entry is a regular file or a directory
EntryKinds == {"file", "dir"}

ImgDirSet ==
    UNION {[ns -> EntryKinds] :
            ns \in {q \in SUBSET UnlNames : Cardinality(q) <= MaxUnlEntries}}

\* get_image_files: the regular files with an image suffix, in the order
\* iterdir() lists the directory
get_image_files(d, listing) ==
    SelectSeq(listing,
              LAMBDA n : /\ d[n] = "file"
                         /\ Lower(UnlSuffix(n)) \in IMAGE_EXTENSIONS)

has_labelme_annotation_Mut(d, image_path) == image_path \in DOMAIN d

\* has_labelme_annotation: json_path.exists()
has_labelme_annotation(d, image_path) ==
    WithSuffixJson(image_path) \in DOMAIN d

\* lines 77-83: the listing, and the early return for no image
UnlScan ==
    /\ upc = "start"
    /\ \E listing \in Listings(DOMAIN img_dir) :
        /\ unl_files' = get_image_files(img_dir, listing)
        /\ upc' = IF unl_files' = <<>> THEN "done" ELSE "loop"
    /\ UNCHANGED <<img_dir, img_dir0, unl_dry_run, removed_count, kept_count>>
    /\ UNCHANGED <<labelVars, runVars, workerVars, mergeVars, dupVars,
                 splitVars>>

\* lines 89-102: one image of image_files
UnlImage ==
    /\ upc = "loop"
    /\ unl_files /= <<>>
    /\ IF has_labelme_annotation(img_dir, Head(unl_files))
       THEN /\ kept_count' = kept_count + 1
            /\ UNCHANGED <<img_dir, removed_count>>
       ELSE /\ UNCHANGED kept_count
            /\ IF unl_dry_run
               THEN /\ removed_count' = removed_count + 1
                    /\ UNCHANGED img_dir
               ELSE \/ /\ img_dir' = Unlink(img_dir, Head(unl_files))
                       /\ removed_count' = removed_count + 1
                    \/ \* image_path.unlink() raises
                       UNCHANGED <<img_dir, removed_count>>
    /\ unl_files' = Tail(unl_files)
    /\ UNCHANGED <<img_dir0, unl_dry_run, upc>>
    /\ UNCHANGED <<labelVars, runVars, workerVars, mergeVars, dupVars,
                 splitVars>>

\* line 104: return removed_count, kept_count
UnlEnd ==
    /\ upc = "loop"
    /\ unl_files = <<>>
    /\ upc' = "done"
    /\ UNCHANGED <<img_dir, img_dir0, unl_dry_run, unl_files, removed_count,
                   kept_count>>
    /\ UNCHANGED <<labelVars, runVars, workerVars, mergeVars, dupVars,
                 splitVars>>

UnlIdle ==
    /\ img_dir = [n \in {} |-> "file"]
    /\ img_dir0 = img_dir
    /\ unl_dry_run = TRUE
    /\ upc = "idle"
    /\ unl_files = <<>>
    /\ removed_count = 0
    /\ kept_count = 0

----------------------------------------------------------------------------
(* split_manual_auto_annotations.py: manual annotations to val/, model
   annotations to train/ *)

\* a file name is its stem and its suffix
JsonNames == {<<"a", ".json">>, <<"b", ".json">>, <<"val_b", ".json">>}
SplitImageNames == {<<"a", ".jpg">>, <<"a", ".png">>, <<"val_b", ".jpg">>}

\* the values of dataset_dir
DatasetDirs == {"datasets17k", "eval_set"}

\* 'train' in s or 'val' in s, for the path components of the model
HasTrainOrVal(s) ==
    CASE s = "datasets17k" -> FALSE
      [] s = "eval_set" -> TRUE
      [] s \in {"a", "b"} -> FALSE
      [] s = "val_b" -> TRUE

\* a shape without the key 'points'
NoPoints == -1

ShapeSeqs ==
    UNION {[1..n -> {NoPoints} \cup 0..MaxPoints] : n \in 0..MaxShapes}

\* the content of a JSON file: whether json.load succeeds and gives a
\* dict, and len(shape['points']) of each of its shapes
JsonContents ==
    {[parses |-> FALSE, shapes |-> <<>>]}
    \cup {[parses |-> TRUE, shapes |-> s] : s \in ShapeSeqs}

\* the contents of the other JSON files of the model
PlainContents ==
    {[parses |-> FALSE, shapes |-> <<>>],
     [parses |-> TRUE, shapes |-> <<1>>],
     [parses |-> TRUE, shapes |-> <<MaxPoints>>]}

ImageContent == [parses |-> FALSE, shapes |-> <<0>>]

NoEntries == [n \in {} |-> ImageContent]

\* the dataset directories: one JSON file of any content, a second one,
\* one with 'val' in its name, and any of the images
RootSet ==
    {[n \in js \cup is |->
        IF n = <<"a", ".json">> THEN ca
        ELSE IF n = <<"b", ".json">> THEN cb
        ELSE IF n \in JsonNames THEN cv ELSE ImageContent] :
      js \in SUBSET JsonNames, is \in SUBSET SplitImageNames,
      ca \in JsonContents, cb \in PlainContents, cv \in PlainContents}

RECURSIVE SeqMax(_)
SeqMax(s) ==
    IF Len(s) = 1 THEN s[1]
    ELSE IF Head(s) >= SeqMax(Tail(s)) THEN Head(s) ELSE SeqMax(Tail(s))

RECURSIVE SeqMin(_)
SeqMin(s) ==
    IF Len(s) = 1 THEN s[1]
    ELSE IF Head(s) <= SeqMin(Tail(s)) THEN Head(s) ELSE SeqMin(Tail(s))

\* the return value (None, 0, 0)
NoAnnotation ==
    [none |-> TRUE, is_manual |-> FALSE, max_points |-> 0, min_points |-> 0]

check_annotation_type_Mut(c, manual_threshold) == NoAnnotation

\* check_annotation_type
check_annotation_type(c, manual_threshold) ==
    IF ~c.parses THEN NoAnnotation
    ELSE IF c.shapes = <<>> THEN NoAnnotation
    ELSE LET points_list == SelectSeq(c.shapes, LAMBDA p : p /= NoPoints) IN
         IF points_list = <<>> THEN NoAnnotation
         ELSE [none |-> FALSE,
               is_manual |-> \A i \in 1..Len(points_list) :
                                points_list[i] <= manual_threshold,
               max_points |-> SeqMax(points_list),
               min_points |-> SeqMin(points_list)]

possible_extensions == <<".jpeg", ".jpg", ".png", ".bmp">>

\* lines 99-107: the first existing image of the stem, <<>> for None
ImageFile(root, stem) ==
    LET found == SelectSeq(possible_extensions,
                           LAMBDA ext : <<stem, ext>> \in DOMAIN root)
    IN  IF found = <<>> THEN <<>> ELSE <<stem, Head(found)>>

\* shutil.move of the entries ns of root to the directory target
MoveTo(d, target, ns) ==
    [root |-> [n \in DOMAIN d.root \ ns |-> d.root[n]],
     train |-> IF target = "train"
               THEN [n \in DOMAIN d.train \cup ns |->
                        IF n \in ns THEN d.root[n] ELSE d.train[n]]
               ELSE d.train,
     val |-> IF target = "val"
             THEN [n \in DOMAIN d.val \cup ns |->
                      IF n \in ns THEN d.root[n] ELSE d.val[n]]
             ELSE d.val]

\* lines 66-84: mkdir of train/ and val/, the glob of *.json
SplitBegin ==
    /\ spc = "start"
    /\ json_files' \in Listings(DOMAIN dset.root \cap JsonNames)
    /\ spc' = "loop"
    /\ UNCHANGED <<dset, dset0, split_args, split_counts>>
    /\ UNCHANGED <<labelVars, runVars, workerVars, mergeVars, dupVars,
                   unlVars>>

\* lines 86-129: one file of json_files
SplitFile ==
    /\ spc = "loop"
    /\ json_files /= <<>>
    /\ LET json_file == Head(json_files)
           t == check_annotation_type(dset.root[json_file],
                                      split_args.manual_threshold)
           image_file == ImageFile(dset.root, json_file[1])
           moved == IF image_file = <<>> THEN {json_file}
                    ELSE {json_file, image_file}
       IN  IF HasTrainOrVal(split_args.dataset_dir)
              \/ HasTrainOrVal(json_file[1])
           THEN \* 'train' in str(json_file) or 'val' in str(json_file)
                UNCHANGED <<dset, split_counts>>
           ELSE IF t.none
           THEN /\ split_counts' =
                     [split_counts EXCEPT !.error = split_counts.error + 1]
                /\ UNCHANGED dset
           ELSE IF t.is_manual
           THEN /\ dset' = MoveTo(dset, "val", moved)
                /\ split_counts' =
                     [split_counts EXCEPT !.manual = split_counts.manual + 1]
           ELSE /\ dset' = MoveTo(dset, "train", moved)
                /\ split_counts' =
                     [split_counts EXCEPT !.auto = split_counts.auto + 1]
    /\ json_files' = Tail(json_files)
    /\ UNCHANGED <<dset0, split_args, spc>>
    /\ UNCHANGED <<labelVars, runVars, workerVars, mergeVars, dupVars,
                   unlVars>>

\* lines 131-139: the summary
SplitEnd ==
    /\ spc = "loop"
    /\ json_files = <<>>
    /\ spc' = "done"
    /\ UNCHANGED <<dset, dset0, split_args, json_files, split_counts>>
    /\ UNCHANGED <<labelVars, runVars, workerVars, mergeVars, dupVars,
                   unlVars>>

NewSplitCounts == [manual |-> 0, auto |-> 0, error |-> 0]

SplitIdle ==
    /\ dset = [root |-> NoEntries, train |-> NoEntries, val |-> NoEntries]
    /\ dset0 = dset
    /\ split_args = [dataset_dir |-> "datasets17k", manual_threshold |-> 1]
    /\ spc = "idle"
    /\ json_files = <<>>
    /\ split_counts = NewSplitCounts

DupIdle ==
    /\ folder = [q \in {} |-> [content |-> "c1", readable |-> TRUE]]
    /\ folder0 = folder
    /\ dup_args = [keep_first |-> TRUE, dry_run |-> TRUE, recursive |-> TRUE]
    /\ dpc = "idle"
    /\ duplicates = <<>>
    /\ to_delete = <<>>
    /\ total_deleted = 0

ToolsIdle == DupIdle /\ UnlIdle /\ SplitIdle

----------------------------------------------------------------------------
(* The specifications *)

RunIdle ==
    /\ pc = "idle"
    /\ yaml = [exists |-> FALSE, parses |-> FALSE, none |-> TRUE, d |-> NoDict]
    /\ dataset_config = None
    /\ errors = <<>>
    /\ warnings = <<>>
    /\ stats = NewStats
    /\ split = 1
    /\ dir = NoDir
    /\ image_files = <<>>
    /\ label_files = <<>>
    /\ valid_pairs = <<>>
    /\ tasks = <<>>
    /\ pending = {}
    /\ raises = {}
    /\ printed = <<>>
    /\ success = FALSE
    /\ exit_code = -1

LabelIdle ==
    /\ args = Args("a.txt", TRUE, <<>>, 0)
    /\ result = NewResult
    /\ trace = <<>>
    /\ lpc = "idle"

InitLabel ==
    /\ ToolsIdle
    /\ WorkerIdle
    /\ MergeIdle
    /\ args \in ArgSet
    /\ result = NewResult
    /\ trace = <<>>
    /\ lpc = "call"
    /\ RunIdle

CallCheckSingleLabel ==
    /\ lpc = "call"
    /\ LET r == LabelRun(args) IN
        /\ result' = r.result
        /\ trace' = r.trace
    /\ lpc' = "returned"
    /\ UNCHANGED args
    /\ UNCHANGED <<runVars, workerVars, mergeVars, toolVars>>

NextLabel == CallCheckSingleLabel

SpecLabel == InitLabel /\ [][NextLabel]_vars

\* check_single_label called on short files for images of every size
InitPure ==
    /\ ToolsIdle
    /\ WorkerIdle
    /\ MergeIdle
    /\ args \in PureArgSet
    /\ result = NewResult
    /\ trace = <<>>
    /\ lpc = "call"
    /\ RunIdle

NextPure == CallCheckSingleLabel

SpecPure == InitPure /\ [][NextPure]_vars

\* DatasetChecker.__init__ and the descriptor file it is pointed at
Init ==
    /\ ToolsIdle
    /\ WorkerIdle
    /\ MergeIdle
    /\ LabelIdle
    /\ pc = "start"
    /\ yaml \in YamlSet
    /\ dataset_config = None
    /\ errors = <<>>
    /\ warnings = <<>>
    /\ stats = NewStats
    /\ split = 1
    /\ dir = NoDir
    /\ image_files = <<>>
    /\ label_files = <<>>
    /\ valid_pairs = <<>>
    /\ tasks = <<>>
    /\ pending = {}
    /\ raises = {}
    /\ printed = <<>>
    /\ success = FALSE
    /\ exit_code = -1

\* n accumulated messages, told apart by idx
SummaryMsgs(kind, n) == [i \in 1..n |-> Msg(kind, "", 0, 0, i, "")]

\* print_summary called on a checker that found e images without label
\* and w labels without image next to one valid pair
InitSummary ==
    /\ ToolsIdle
    /\ WorkerIdle
    /\ MergeIdle
    /\ LabelIdle
    /\ pc = "summary"
    /\ yaml = [exists |-> FALSE, parses |-> FALSE, none |-> TRUE, d |-> NoDict]
    /\ dataset_config = None
    /\ \E w \in 0..MaxWarnings, e \in 0..MaxErrors :
        /\ warnings = SummaryMsgs("missing_image", w)
        /\ errors = SummaryMsgs("missing_label", e)
        /\ stats = [NewStats EXCEPT !.total_images = e + 1,
                                    !.total_labels = 1,
                                    !.missing_labels = e,
                                    !.missing_images = w]
    /\ split = Len(splits) + 1
    /\ dir = NoDir
    /\ image_files = <<>>
    /\ label_files = <<>>
    /\ valid_pairs = <<>>
    /\ tasks = <<>>
    /\ pending = {}
    /\ raises = {}
    /\ printed = <<>>
    /\ success = FALSE
    /\ exit_code = -1

NextSummary == PrintSummary

SpecSummary == InitSummary /\ [][NextSummary]_vars

\* main parsed its arguments on a machine with cpus cores
InitWorkers ==
    /\ ToolsIdle
    /\ LabelIdle
    /\ MergeIdle
    /\ RunIdle
    /\ workers \in WorkerArgs
    /\ cpus \in 1..MaxCpus
    /\ num_workers = 0
    /\ wpc = "init"

NextWorkers ==
    \/ InitChecker
    \/ CreatePool

SpecWorkers == InitWorkers /\ [][NextWorkers]_vars

\* merge_labeled_files is called on some source and target directories
InitMerge ==
    /\ ToolsIdle
    /\ LabelIdle
    /\ RunIdle
    /\ WorkerIdle
    /\ disk \in {[source |-> s, target |-> t] :
                    s \in SourceSet, t \in TargetSet}
    /\ disk0 = disk
    /\ dry_run \in BOOLEAN
    /\ mpc = "start"
    /\ subdirs = <<>>
    /\ subdir = <<>>
    /\ files = <<>>
    /\ counts = NewCounts

NextMerge ==
    \/ MergeBegin
    \/ EnterSubdir
    \/ MergeFile
    \/ MergeEnd

SpecMerge == InitMerge /\ [][NextMerge]_vars

\* delete_duplicate_files is called on an existing folder
InitDup ==
    /\ LabelIdle
    /\ RunIdle
    /\ WorkerIdle
    /\ MergeIdle
    /\ UnlIdle
    /\ SplitIdle
    /\ folder \in FolderSet
    /\ folder0 = folder
    /\ dup_args \in [keep_first : BOOLEAN, dry_run : BOOLEAN,
                      recursive : BOOLEAN]
    /\ dpc = "start"
    /\ duplicates = <<>>
    /\ to_delete = <<>>
    /\ total_deleted = 0

NextDup ==
    \/ DupFind
    \/ DupDelete
    \/ DupEnd

SpecDup == InitDup /\ [][NextDup]_vars

Next ==
    \/ CheckYaml
    \/ BeginCheckImagesAndLabels
    \/ SkipSplit
    \/ ScanSplit
    \/ MergeResult
    \/ FinishSplit
    \/ PrintSummary
    \/ MainExit
    \/ Traceback

Spec == Init /\ [][Next]_vars

----------------------------------------------------------------------------
(* Claims about check_single_label (SpecLabel) *)

Lines == args.lines

Returned == lpc = "returned" /\ args.readable

\* the errors the result holds for line i, and those of one kind
ErrorsOfLine(i) == SelectSeq(result.errors, LAMBDA e : e.line = i)
KindOfLine(i, kind) == SelectSeq(result.errors,
                                 LAMBDA e : e.line = i /\ e.kind = kind)

\* the checks evaluated on line i
OpsOfLine(i) == {trace[k].op : k \in {j \in 1..Len(trace) : trace[j].line = i}}

\* the coordinate indexes whose range was evaluated on line i
RangeIdxOfLine(i) ==
    {trace[k].idx :
        k \in {j \in 1..Len(trace) : trace[j].line = i /\ trace[j].op = "range"}}

NoNonBlankLine == \A i \in 1..Len(Lines) : Len(Lines[i]) = 0

\* C1 (as claimed): a label file with zero non-blank lines, be it zero bytes
\* long or made of blank lines only, yields is_empty, not is_invalid, no
\* error and exactly one warning.
C1_BlankFileIsEmpty ==
    (Returned /\ NoNonBlankLine) =>
        /\ result.is_empty
        /\ ~result.is_invalid
        /\ result.errors = <<>>
        /\ Len(result.warnings) = 1

\* number of coordinate tokens of line i
NumCoords(i) == Len(Lines[i]) - 1

\* C2 (as claimed): every non-blank line with an odd number of coordinate
\* tokens gets an odd-coordinate-count error and no coordinate range check;
\* the 5-coordinate line of scenario C yields exactly one error, the
\* odd-count one.
C2_OddCountOriginal ==
    Returned =>
        \A i \in 1..Len(Lines) :
            (Len(Lines[i]) > 0 /\ NumCoords(i) % 2 = 1) =>
                /\ Len(KindOfLine(i, "odd")) >= 1
                /\ "range" \notin OpsOfLine(i)
                /\ (Lines[i] = ScenarioC =>
                        /\ Len(ErrorsOfLine(i)) = 1
                        /\ ErrorsOfLine(i)[1].kind = "odd")

\* C2 (amended): every line with at least 7 tokens, an integer class id and
\* an odd number of coordinate tokens gets exactly one odd-coordinate-count
\* error citing the count, and no coordinate of it is parsed or range
\* checked; the 6-token line of scenario C yields exactly one error, the
\* insufficient-points one.
C2_OddCount ==
    Returned =>
        \A i \in 1..Len(Lines) :
            /\ (Len(Lines[i]) >= 7 /\ Lines[i][1] \in IntTokens
                /\ NumCoords(i) % 2 = 1) =>
                    /\ Len(KindOfLine(i, "odd")) = 1
                    /\ KindOfLine(i, "odd")[1].val = NumCoords(i)
                    /\ result.is_invalid
                    /\ OpsOfLine(i) \cap {"float", "range"} = {}
                    /\ KindOfLine(i, "coord_range") = <<>>
            /\ (Lines[i] = ScenarioC =>
                    /\ Len(ErrorsOfLine(i)) = 1
                    /\ ErrorsOfLine(i)[1].kind = "points")

\* an 8-token line whose coordinates include an out-of-range value got the
\* odd-count error
C2_Witness ==
    /\ Returned
    /\ \E i \in 1..Len(Lines) :
        /\ Len(Lines[i]) = 8
        /\ \E k \in 2..8 : Lines[i][k] = "1.5"
        /\ Len(KindOfLine(i, "odd")) = 1

\* C3: every non-blank line with fewer than 7 tokens gets exactly one
\* insufficient-points error citing floor((tokens-1)/2), sets is_invalid,
\* and no class-id, odd-count or coordinate check is made on it; the lines
\* after it are still examined.
C3_TooFewTokens ==
    Returned =>
        \A i \in 1..Len(Lines) :
            (Len(Lines[i]) >= 1 /\ Len(Lines[i]) <= 6) =>
                /\ Len(ErrorsOfLine(i)) = 1
                /\ ErrorsOfLine(i)[1].kind = "points"
                /\ ErrorsOfLine(i)[1].val = (Len(Lines[i]) - 1) \div 2
                /\ result.is_invalid
                /\ OpsOfLine(i) = {"blank", "len"}
                /\ \A j \in i..Len(Lines) : "blank" \in OpsOfLine(j)

\* a 6-token line with a non-integer class token and an out-of-range
\* coordinate was followed by another line, and the file was verified
C3_Witness ==
    /\ Returned
    /\ Len(Lines) = 2
    /\ Len(Lines[1]) = 6
    /\ Lines[1][1] = "abc"
    /\ Lines[1][2] = "1.5"
    /\ Len(Lines[2]) = 2
    /\ Len(result.errors) = 2

\* the value (in tenths) of coordinate token k (0-based) of line i is < 0
\* or > 1
OutOfUnit(i, k) ==
    LET v == FloatValue(Lines[i][k + 2]) IN
    ~v.nan /\ (v.t < 0 \/ v.t > 10)

\* C4: a line with at least 7 tokens, an integer class id and an even number
\* of parseable coordinates, one of them outside [0, 1], gets exactly one
\* coordinate range error, citing the value and 0-based index of the first
\* such coordinate; no later coordinate is checked.
C4_FirstOutOfRange ==
    Returned =>
        \A i \in 1..Len(Lines) :
            (/\ Len(Lines[i]) >= 7
             /\ Lines[i][1] \in IntTokens
             /\ NumCoords(i) % 2 = 0
             /\ \A k \in 0..NumCoords(i) - 1 : Lines[i][k + 2] \in FloatTokens
             /\ \E k \in 0..NumCoords(i) - 1 : OutOfUnit(i, k)) =>
                LET first == CHOOSE k \in 0..NumCoords(i) - 1 :
                                /\ OutOfUnit(i, k)
                                /\ \A m \in 0..k - 1 : ~OutOfUnit(i, m)
                    errs == KindOfLine(i, "coord_range")
                IN  /\ Len(errs) = 1
                    /\ errs[1].idx = first
                    /\ errs[1].val = FloatValue(Lines[i][first + 2]).t
                    /\ errs[1].tok = Lines[i][first + 2]
                    /\ RangeIdxOfLine(i) = 0..first
                    /\ result.is_invalid

\* a line with two out-of-range coordinates, the first of them not at index
\* 0, got its range error
C4_Witness ==
    /\ Returned
    /\ \E i \in 1..Len(Lines) :
        /\ Len(Lines[i]) >= 7
        /\ NumCoords(i) % 2 = 0
        /\ Len(KindOfLine(i, "coord_range")) = 1
        /\ KindOfLine(i, "coord_range")[1].idx = 1
        /\ \E k \in 2..NumCoords(i) - 1 :
              Lines[i][k + 2] = "1.5"

\* C5: a line with at least 7 tokens whose class id is an integer outside
\* [0, num_classes) gets a class-id range error, and the odd-count and
\* coordinate checks are still made on it; a class id inside the range never
\* gets one.
C5_ClassIdRange ==
    Returned =>
        \A i \in 1..Len(Lines) :
            (Len(Lines[i]) >= 7 /\ Lines[i][1] \in IntTokens) =>
                LET c == IntValue(Lines[i][1])
                    errs == KindOfLine(i, "class_range")
                IN  /\ (c >= 0 /\ c < args.num_classes) => errs = <<>>
                    /\ ~(c >= 0 /\ c < args.num_classes) =>
                          /\ Len(errs) = 1
                          /\ errs[1].val = c
                          /\ result.is_invalid
                          /\ "odd" \in OpsOfLine(i)
                          /\ (NumCoords(i) % 2 = 0) = ("float" \in OpsOfLine(i))
                          /\ (NumCoords(i) % 2 = 0 /\ Lines[i][2] \in FloatTokens)
                                => 0 \in RangeIdxOfLine(i)
                          /\ (NumCoords(i) % 2 = 1)
                                => Len(KindOfLine(i, "odd")) = 1

\* one line produced a class-id error and a coordinate range error
C5_Witness ==
    /\ Returned
    /\ \E i \in 1..Len(Lines) :
        /\ Len(KindOfLine(i, "class_range")) = 1
        /\ Len(KindOfLine(i, "coord_range")) = 1
        /\ Len(ErrorsOfLine(i)) = 2

----------------------------------------------------------------------------
(* Claims about check_images_and_labels and check_yaml (Spec) *)

\* the messages a step appended to a list
Added(old, new) == SubSeq(new, Len(old) + 1, Len(new))

\* how many messages of seq have this kind and name
Count(seq, kind, name) ==
    Cardinality({i \in 1..Len(seq) : seq[i].kind = kind /\ seq[i].name = name})

\* how many messages of seq have this kind
CountKind(seq, kind) ==
    Cardinality({i \in 1..Len(seq) : seq[i].kind = kind})

\* the files of directories d with a recognized image extension
Recognized(d) == d.files \cap {"a.jpg", "a.PNG", "b.jpg"}

\* the images of d without, and with, a same-stem .txt file
Unlabelled(d) ==
    {f \in Recognized(d) : LabelName(Stem(f)) \notin DOMAIN d.labels}
Labelled(d) == Recognized(d) \ Unlabelled(d)

\* the .txt files of d whose stem is the stem of no image
Orphans(d) ==
    {l \in DOMAIN d.labels : \A f \in Recognized(d) : Stem(f) /= Stem(l)}

\* the step reads the directories of a configured split
ScanStep == pc = "scan" /\ dir' /= dir

\* the step ends the loop iteration of a split
EndsIteration == split' = split + 1

\* C6: every image of a processed split without a same-stem .txt file gets
\* exactly one missing-label error and adds one to missing_labels; it is in
\* no pair submitted for verification and not counted in total_labels; no
\* later step of the split touches these counters.
C6_MissingLabel ==
    [][/\ (pc = "scan" /\ pc' = "pool") =>
            /\ \A f \in Recognized(dir') :
                  Count(Added(errors, errors'), "missing_label", f)
                    = IF f \in Unlabelled(dir') THEN 1 ELSE 0
            /\ stats'.missing_labels
                  = stats.missing_labels + Cardinality(Unlabelled(dir'))
            /\ stats'.total_labels
                  = stats.total_labels + Cardinality(Labelled(dir'))
            /\ \A i \in 1..Len(valid_pairs') :
                  valid_pairs'[i][1] \notin Unlabelled(dir')
            /\ \A i \in 1..Len(tasks') :
                  \A f \in Unlabelled(dir') : tasks'[i] /= LabelName(Stem(f))
       /\ pc = "pool" =>
            /\ stats'.missing_labels = stats.missing_labels
            /\ stats'.total_labels = stats.total_labels
            /\ CountKind(Added(errors, errors'), "missing_label") = 0
      ]_vars

\* a split with one image without label and one with a label is being
\* verified
C6_Witness ==
    /\ pc = "pool"
    /\ Unlabelled(dir) /= {}
    /\ Labelled(dir) /= {}
    /\ stats.missing_labels >= 1
    /\ Len(tasks) >= 1

\* C7 (as claimed): in every configured split whose image and label
\* directories exist, every .txt file without a same-stem image gets exactly
\* one missing-image warning and adds one to missing_images, whatever else
\* the split contains.
C7_OrphanLabelOriginal ==
    [][(EndsIteration /\ pc' /= "crashed"
        /\ dir'.img_exists /\ dir'.label_exists
        /\ (IF splits[split] \in DOMAIN dataset_config.d
            THEN dataset_config.d[splits[split]] /= "" ELSE FALSE)) =>
            /\ \A l \in Orphans(dir') :
                  Count(Added(warnings, warnings'), "missing_image", l) = 1
            /\ stats'.missing_images
                  = stats.missing_images + Cardinality(Orphans(dir'))
      ]_vars

\* C7 (amended): in every configured split whose image and label directories
\* exist and whose image directory holds at least one recognized image file,
\* every .txt file without a same-stem image gets exactly one missing-image
\* warning, no error, and adds one to missing_images; the other .txt files
\* get no such warning, and no other step of the split touches the counter.
C7_OrphanLabel ==
    [][/\ (EndsIteration
           /\ dir'.img_exists /\ dir'.label_exists
           /\ Recognized(dir') /= {}
           /\ (IF splits[split] \in DOMAIN dataset_config.d
               THEN dataset_config.d[splits[split]] /= "" ELSE FALSE)) =>
            /\ \A l \in DOMAIN dir'.labels :
                  Count(Added(warnings, warnings'), "missing_image", l)
                    = IF l \in Orphans(dir') THEN 1 ELSE 0
            /\ stats'.missing_images
                  = stats.missing_images + Cardinality(Orphans(dir'))
            /\ errors' = errors
       /\ ~EndsIteration =>
            /\ stats'.missing_images = stats.missing_images
            /\ CountKind(Added(warnings, warnings'), "missing_image") = 0
       /\ CountKind(Added(errors, errors'), "missing_image") = 0
      ]_vars

\* a split with an image, its label and a label without image is finished
C7_Witness ==
    /\ pc \in {"scan", "summary"}
    /\ split = 2
    /\ Labelled(dir) /= {}
    /\ Orphans(dir) = {"a.txt"}
    /\ Count(warnings, "missing_image", "a.txt") = 1
    /\ stats.missing_images = 1

\* C8 (as claimed): a split whose image directory holds no file with a
\* recognized image extension gets exactly one no-images error, none of its
\* labels is verified, and the loop goes on to the next split.
C8_NoImagesOriginal ==
    [][(ScanStep /\ dir'.img_exists /\ Recognized(dir') = {}) =>
            /\ Count(Added(errors, errors'), "no_images", splits[split]) = 1
            /\ Len(Added(errors, errors')) = 1
            /\ tasks' = <<>> /\ pending' = {}
            /\ split' = split + 1
            /\ pc' = (IF split = 1 THEN "scan" ELSE "summary")
      ]_vars

\* C8 (amended): a configured split whose image directory and label
\* directory exist and whose image directory holds no file with a recognized
\* image extension gets exactly one no-images error and nothing else, none
\* of its labels is verified, and the loop goes on to the next split; a
\* split with a recognized image file gets no such error.
C8_NoImages ==
    [][/\ (ScanStep /\ dir'.img_exists /\ dir'.label_exists
           /\ Recognized(dir') = {}) =>
            /\ Count(Added(errors, errors'), "no_images", splits[split]) = 1
            /\ Len(Added(errors, errors')) = 1
            /\ warnings' = warnings
            /\ tasks' = <<>> /\ pending' = {}
            /\ stats' = stats
            /\ split' = split + 1
            /\ pc' = (IF split = 1 THEN "scan" ELSE "summary")
       /\ (ScanStep /\ Recognized(dir') /= {}) =>
            CountKind(Added(errors, errors'), "no_images") = 0
      ]_vars

\* the train split had no image, and the labels of val are being verified
C8_Witness ==
    /\ pc = "pool"
    /\ split = 2
    /\ Count(errors, "no_images", "train") = 1
    /\ Len(tasks) >= 1
    /\ pending /= {}

\* the split at index s is absent from the descriptor d or empty in it
Unconfigured(d, s) ==
    IF splits[s] \in DOMAIN d THEN d[splits[s]] = "" ELSE TRUE

\* every image of directories d has a label file that holds records only,
\* and opens
Clean(d) ==
    /\ d.img_exists /\ d.label_exists
    /\ Recognized(d) /= {}
    /\ Unlabelled(d) = {}
    /\ d.broken = {}
    /\ \A f \in Recognized(d) : d.labels[LabelName(Stem(f))] = "valid"

\* C9: for a split key absent or empty in the descriptor the loop records
\* exactly one warning for that split, no error, changes no counter and goes
\* on to the next split; a descriptor that configures only the train split,
\* over clean train data whose verification tasks all return, passes.
C9_UnconfiguredSplit ==
    [][/\ (pc = "scan" /\ Unconfigured(dataset_config.d, split)) =>
            /\ Added(warnings, warnings')
                  = <<Msg("not_configured", splits[split], 0, 0, 0, "")>>
            /\ errors' = errors
            /\ stats' = stats
            /\ split' = split + 1
            /\ pc' = (IF split = 1 THEN "scan" ELSE "summary")
       /\ (pc = "scan" /\ ~Unconfigured(dataset_config.d, split)) =>
            CountKind(Added(warnings, warnings'), "not_configured") = 0
       /\ (pc' = "done"
           /\ ~yaml.none
           /\ {"path", "train", "names"} \subseteq DOMAIN yaml.d
           /\ Unconfigured(yaml.d, 2)
           /\ yaml.d["names"].kind = "dict"
           /\ Clean(dir')
           /\ raises' = {}) => success'
      ]_vars

\* the run passed over a clean train split with val not configured
C9_Witness ==
    /\ pc = "done"
    /\ success
    /\ Count(warnings, "not_configured", "val") = 1
    /\ Clean(dir)
    /\ stats.total_labels >= 1

\* C10 (as claimed): check_yaml records an error and returns None when the
\* descriptor file is absent, cannot be parsed, or lacks a required field
\* (path, train, names).
C10_YamlFailureReturnsNone ==
    (/\ pc = "yaml_done"
     /\ \/ ~yaml.exists
        \/ ~yaml.parses
        \/ {"path", "train", "names"} \ DOMAIN yaml.d /= {}) =>
        /\ Len(errors) >= 1
        /\ dataset_config.none

----------------------------------------------------------------------------
(* Claims about run (Spec) *)

\* the descriptor file is absent, unparsable, empty, lacks a required
\* field, has a names field that is no mapping, or names a missing root
DescriptorProblem ==
    \/ ~yaml.exists
    \/ ~yaml.parses
    \/ yaml.none
    \/ {"path", "train", "names"} \ DOMAIN yaml.d /= {}
    \/ (IF "names" \in DOMAIN yaml.d
        THEN yaml.d["names"].kind /= "dict" ELSE FALSE)
    \/ (IF "path" \in DOMAIN yaml.d
        THEN ~yaml.d["path"].exists ELSE FALSE)

\* C11 (as claimed): with any descriptor problem run() raises no exception,
\* records an error, reaches the summary and returns false.
C11_DescriptorProblemNeverAborts ==
    DescriptorProblem =>
        /\ pc /= "crashed"
        /\ pc = "done" => (Len(errors) >= 1 /\ ~success)

\* C12: run() returns true exactly when self.errors is empty after all
\* phases, whatever the number of warnings; the process exits with 0 when
\* run() returned true and with 1 when at least one error was recorded.
C12_PassFailAndExitCode ==
    /\ pc \in {"done", "exited"} => (success <=> Len(errors) = 0)
    /\ pc = "exited" => exit_code = (IF success THEN 0 ELSE 1)
    /\ (pc \in {"exited", "aborted"} /\ Len(errors) >= 1) => exit_code = 1
    /\ exit_code = 0 => (pc = "exited" /\ Len(errors) = 0)

\* a run with a warning and no error has exited with 0
C12_Witness ==
    /\ pc = "exited"
    /\ Len(warnings) >= 1
    /\ success
    /\ exit_code = 0

----------------------------------------------------------------------------
(* Claims about print_summary (SpecSummary) *)

\* the messages of the printed items of a kind, in print order
PrintedMsgs(out, kind) ==
    LET items == SelectSeq(out, LAMBDA o : o.kind = kind)
    IN  [i \in 1..Len(items) |-> items[i].msg]

\* the counts stated by the printed items of a kind
PrintedCounts(out, kind) ==
    LET items == SelectSeq(out, LAMBDA o : o.kind = kind)
    IN  [i \in 1..Len(items) |-> items[i].n]

Smaller(a, b) == IF a < b THEN a ELSE b

\* C13: print_summary prints the first min(20, W) warnings and the first
\* min(30, E) errors in list order, a truncation notice with the remaining
\* count exactly when W > 20 (E > 30), the pass banner exactly when E = 0,
\* and changes neither errors, warnings nor stats.
C13_PrintSummary ==
    [][pc = "summary" =>
        LET W == Len(warnings)
            E == Len(errors)
        IN
        /\ PrintedMsgs(printed', "warning") = SubSeq(warnings, 1, Smaller(20, W))
        /\ PrintedMsgs(printed', "error") = SubSeq(errors, 1, Smaller(30, E))
        /\ PrintedCounts(printed', "more_warnings")
              = (IF W > 20 THEN <<W - 20>> ELSE <<>>)
        /\ PrintedCounts(printed', "more_errors")
              = (IF E > 30 THEN <<E - 30>> ELSE <<>>)
        /\ Len(PrintedMsgs(printed', "pass")) = (IF E = 0 THEN 1 ELSE 0)
        /\ errors' = errors
        /\ warnings' = warnings
        /\ stats' = stats
    ]_vars

\* a summary was printed for more than 20 warnings and more than 30 errors
C13_Witness ==
    /\ pc = "done"
    /\ Len(warnings) > 20
    /\ Len(errors) > 30
    /\ Len(PrintedMsgs(printed, "warning")) = 20
    /\ Len(PrintedMsgs(printed, "error")) = 30

----------------------------------------------------------------------------
(* Claims about the worker pool (Spec) *)

\* C14: a task that raised in its worker is recorded as exactly one
\* "failed while processing label" error and is not retried; every other
\* submitted task of the split is still merged, one per step, and the loop
\* leaves the split only with no future pending, for the next split or the
\* summary.
C14_WorkerFailure ==
    [][pc = "pool" =>
        /\ pending' \subseteq pending
        /\ tasks' = tasks
        /\ raises' = raises
        /\ pending' /= pending =>
            \E i \in pending :
                /\ pending' = pending \ {i}
                /\ pc' = "pool"
                /\ i \in raises =>
                    /\ Len(Added(errors, errors')) = 1
                    /\ Added(errors, errors')[1].kind = "task_failed"
                    /\ warnings' = warnings
                    /\ stats' = stats
                /\ i \notin raises =>
                    /\ Added(errors, errors')
                          = check_single_label(TaskArgs(tasks[i])).errors
                    /\ CountKind(errors', "task_failed")
                          = CountKind(errors, "task_failed")
        /\ pc' /= "pool" =>
            /\ pending = {}
            /\ pc' = (IF split < Len(splits) THEN "scan" ELSE "summary")
            /\ split' = split + 1
    ]_vars

\* a run returned after a task failed and the result of another task was
\* merged after the failure
C14_Witness ==
    /\ pc = "done"
    /\ Len(errors) >= 2
    /\ errors[1].kind = "task_failed"
    /\ errors[2].kind = "points"
    /\ CountKind(errors, "task_failed") = 1
    /\ stats.total_labels >= 2
    /\ split = Len(splits) + 1
    /\ ~success

\* the two sequences hold the same messages the same number of times
SameBag(s, t) ==
    /\ Len(s) = Len(t)
    /\ \A k \in 1..Len(s) :
        Cardinality({n \in 1..Len(s) : s[n] = s[k]})
            = Cardinality({n \in 1..Len(t) : t[n] = s[k]})

\* C15: the order in which the worker tasks complete changes neither the
\* stats, nor the pass/fail result, nor the multisets of errors and
\* warnings: merging any two pending futures in either order gives the same
\* counters and the same messages up to their order, and messages recorded
\* before keep their place; the summary is printed only when no future is
\* pending.
C15_CompletionOrder ==
    /\ pc = "pool" =>
        \A i \in pending : \A j \in pending \ {i} :
            LET ij == MergeOne(MergeOne(Report, i), j)
                ji == MergeOne(MergeOne(Report, j), i)
            IN
            /\ SameBag(ij.errors, ji.errors)
            /\ SameBag(ij.warnings, ji.warnings)
            /\ ij.stats = ji.stats
            /\ RunResult(ij.errors) = RunResult(ji.errors)
            /\ SubSeq(ij.errors, 1, Len(errors)) = errors
            /\ SubSeq(ij.warnings, 1, Len(warnings)) = warnings
    /\ pc \in {"summary", "done", "exited"} => pending = {}
    /\ printed /= <<>> => pending = {}

\* two futures are pending whose merge order shows in the order of the
\* error messages
C15_Witness ==
    /\ pc = "pool"
    /\ \E i \in pending : \E j \in pending \ {i} :
        /\ MergeOne(MergeOne(Report, i), j).errors
              /= MergeOne(MergeOne(Report, j), i).errors
        /\ MergeOne(Report, i).stats /= MergeOne(Report, j).stats

----------------------------------------------------------------------------
(* Claims about check_single_label as a function (SpecPure) *)

\* C16: check_single_label changes no state of the checker (errors,
\* warnings and stats are as before the call) and its result is the one it
\* returns for the same label file and class count with any other
\* img_width and img_height.
C16_PureFunction ==
    lpc = "returned" =>
        /\ \A w \in ImageSizes, h \in ImageSizes :
            check_single_label([args EXCEPT !.img_width = w,
                                            !.img_height = h]) = result
        /\ errors = <<>>
        /\ warnings = <<>>
        /\ stats = NewStats

\* the call returned a class-id range error for an image wider than high
C16_Witness ==
    /\ lpc = "returned"
    /\ args.img_width > args.img_height
    /\ args.img_width > args.num_classes
    /\ \E k \in 1..Len(result.errors) : result.errors[k].kind = "class_range"

----------------------------------------------------------------------------
(* Claims about numeric-format errors (SpecLabel) *)

\* the coordinate indexes float() was applied to on line i
FloatIdxOfLine(i) ==
    {trace[k].idx :
        k \in {j \in 1..Len(trace) : trace[j].line = i /\ trace[j].op = "float"}}

\* line i has a coordinate token that is no floating-point number
HasBadCoord(i) == \E k \in 0..NumCoords(i) - 1 : ~IsFloat(Lines[i][k + 2])

\* the 0-based index of the first such coordinate
FirstBadCoord(i) ==
    CHOOSE k \in 0..NumCoords(i) - 1 :
        /\ ~IsFloat(Lines[i][k + 2])
        /\ \A m \in 0..k - 1 : IsFloat(Lines[i][m + 2])

\* token 0 of line i is an integer outside [0, num_classes)
BadClass(i) ==
    /\ IsInt(Lines[i][1])
    /\ (IntValue(Lines[i][1]) < 0 \/ IntValue(Lines[i][1]) >= args.num_classes)

\* the line after line i, if any, went through the loop body
NextLineChecked(i) == i < Len(Lines) => "blank" \in OpsOfLine(i + 1)

\* token 0 is no integer: one numeric-format error, nothing else checked
BadClassTokenHandled(i) ==
    /\ Len(ErrorsOfLine(i)) = 1
    /\ ErrorsOfLine(i)[1].kind = "value_error"
    /\ ErrorsOfLine(i)[1].tok = Lines[i][1]
    /\ OpsOfLine(i) = {"blank", "len", "int"}
    /\ result.is_invalid
    /\ NextLineChecked(i)

\* coordinate k is no float: a numeric-format error for it, the coordinates
\* after it untouched, the class-id range error of the line kept
BadCoordHandled(i, k) ==
    /\ Len(KindOfLine(i, "value_error")) = 1
    /\ KindOfLine(i, "value_error")[1].tok = Lines[i][k + 2]
    /\ ErrorsOfLine(i)[Len(ErrorsOfLine(i))].kind = "value_error"
    /\ FloatIdxOfLine(i) = 0..k
    /\ RangeIdxOfLine(i) = 0..k - 1
    /\ Len(KindOfLine(i, "class_range")) = (IF BadClass(i) THEN 1 ELSE 0)
    /\ Len(ErrorsOfLine(i)) = (IF BadClass(i) THEN 2 ELSE 1)
    /\ result.is_invalid
    /\ NextLineChecked(i)

\* C17 (as claimed): on a line with at least 7 tokens, a token 0 that is no
\* integer gives exactly one numeric-format error and no other check; a
\* coordinate token that is no float gives a numeric-format error and the
\* rest of the line is abandoned, earlier errors of the line kept; is_invalid
\* is set and the next line is checked.
C17_NumericFormatOriginal ==
    Returned =>
        \A i \in 1..Len(Lines) :
            Len(Lines[i]) >= 7 =>
                /\ ~IsInt(Lines[i][1]) => BadClassTokenHandled(i)
                /\ (IsInt(Lines[i][1]) /\ HasBadCoord(i)) =>
                        BadCoordHandled(i, FirstBadCoord(i))

\* C17 (amended): the same, for a coordinate token that is no float on a
\* line whose coordinate count is even and whose coordinates before that
\* token lie in [0, 1]; with an odd count or an earlier out-of-range
\* coordinate the token is never parsed.
C17_NumericFormat ==
    Returned =>
        \A i \in 1..Len(Lines) :
            Len(Lines[i]) >= 7 =>
                /\ ~IsInt(Lines[i][1]) => BadClassTokenHandled(i)
                /\ (/\ IsInt(Lines[i][1])
                    /\ HasBadCoord(i)
                    /\ NumCoords(i) % 2 = 0
                    /\ \A m \in 0..FirstBadCoord(i) - 1 : ~OutOfUnit(i, m)) =>
                        BadCoordHandled(i, FirstBadCoord(i))
                /\ (/\ IsInt(Lines[i][1])
                    /\ HasBadCoord(i)
                    /\ (\/ NumCoords(i) % 2 /= 0
                        \/ \E m \in 0..FirstBadCoord(i) - 1 : OutOfUnit(i, m))) =>
                        /\ KindOfLine(i, "value_error") = <<>>
                        /\ FirstBadCoord(i) \notin FloatIdxOfLine(i)
                        /\ result.is_invalid

\* a line with a class id out of range and a non-float coordinate that is
\* not the first one got both errors, and a line follows it
C17_Witness ==
    /\ Returned
    /\ \E i \in 1..Len(Lines) :
        /\ Len(Lines[i]) >= 7
        /\ Len(KindOfLine(i, "class_range")) = 1
        /\ Len(KindOfLine(i, "value_error")) = 1
        /\ KindOfLine(i, "value_error")[1].tok = "abc"
        /\ Lines[i][2] /= "abc"
        /\ i < Len(Lines)
        /\ Len(Lines[i + 1]) > 0

----------------------------------------------------------------------------
(* Claims about exhaustive checking (Spec) *)

\* the non-blank line breaks a rule of the label format for n classes
Defective(parts, n) ==
    /\ Len(parts) > 0
    /\ \/ Len(parts) < 7
       \/ parts[1] \notin IntTokens
       \/ (IF parts[1] \in IntTokens
           THEN IntValue(parts[1]) < 0 \/ IntValue(parts[1]) >= n
           ELSE FALSE)
       \/ (Len(parts) - 1) % 2 /= 0
       \/ \E k \in 2..Len(parts) :
            IF parts[k] \in FloatTokens
            THEN ~FloatValue(parts[k]).nan
                 /\ (FloatValue(parts[k]).t < 0 \/ FloatValue(parts[k]).t > 10)
            ELSE TRUE

\* k blank lines
Blank(k) == [j \in 1..k |-> <<>>]

\* block is a run of consecutive elements of seq
Contains(seq, block) ==
    \E off \in 0..(Len(seq) - Len(block)) :
        SubSeq(seq, off + 1, off + Len(block)) = block

\* the futures of the split whose result is merged
Merged == (1..Len(tasks)) \ (pending \cup raises)

\* the errors check_single_label reports for the line alone at line k of
\* label file l
AloneErrors(l, k) ==
    check_single_label(
        Args(l, TRUE, Blank(k - 1) \o <<LabelLines(dir.labels[l])[k]>>,
             dataset_config.d["names"].n)).errors

----------------------------------------------------------------------------
(* Claims about the worker pool size (SpecWorkers) *)

\* C19 (as claimed): the pool size is the --workers value when one is given
\* and otherwise the CPU count minus one, and it is never less than one,
\* whatever the argument and the CPU count.
C19_PoolSize ==
    wpc \in {"ready", "pool", "crashed"} =>
        /\ workers.given => num_workers = workers.value
        /\ ~workers.given =>
              num_workers = (IF cpus - 1 >= 1 THEN cpus - 1 ELSE 1)
        /\ num_workers >= 1
        /\ wpc /= "crashed"

----------------------------------------------------------------------------
(* Claims about merge_labeled_files (SpecMerge) *)

\* C20: merge_labeled_files only copies: at every point of a run every file
\* under the source sub-directories exists with the content it had before,
\* and with dry_run the target directory is neither created nor changed.
C20_CopyOnly ==
    /\ disk.source = disk0.source
    /\ dry_run => disk.target = disk0.target

\* a real run ended after a name collision that renamed a copy and after a
\* copy that failed, with the target changed
C20_Witness ==
    /\ mpc = "done"
    /\ ~dry_run
    /\ counts.renamed >= 1
    /\ counts.copied + counts.skipped < counts.total
    /\ disk.target /= disk0.target

\* every copy of the run succeeded
NoCopyFailed == counts.copied + counts.skipped = counts.total

\* the content of file name of sub-directory sub is the content of some file
\* of the target directory
InTarget(sub, name) ==
    \E t \in DOMAIN disk.target.files :
        disk.target.files[t] = disk.source.dirs[sub][name]

\* C21 (as claimed): a source file whose name exists in the target is
\* skipped if the target file has the same content and copied as
\* "<subdir>_<name>" if the content differs; hence after a real run without
\* copy failures the content of every source file is in the target directory.
C21_ContentPreserved ==
    (mpc = "done" /\ ~dry_run /\ disk.source.exists /\ NoCopyFailed) =>
        \A sub \in DOMAIN disk.source.dirs :
            \A name \in DOMAIN disk.source.dirs[sub] : InTarget(sub, name)

----------------------------------------------------------------------------
(* Claims about delete_duplicate_files (SpecDup) *)

\* the files the call looked at
ScannedFiles == Scanned(folder0, dup_args.recursive)

\* the scanned files that had the bytes of the file at path q
SameContent(q) ==
    {r \in ScannedFiles : folder0[r].content = folder0[q].content}

\* every unlink of the run succeeded
NoDeletionFailed ==
    total_deleted = Len(Flatten(duplicates)) - Len(duplicates)

\* C22 (as claimed): with dry_run nothing is deleted; a real run deletes in
\* every group every member but the first found (the last with keep_first
\* false), so that when no deletion fails exactly one file of each
\* duplicated content remains; a file whose content is unique is never
\* deleted.
C22_Duplicates ==
    /\ dup_args.dry_run => folder = folder0
    /\ (dpc = "done" /\ ~dup_args.dry_run /\ NoDeletionFailed) =>
        /\ \A i \in 1..Len(duplicates) :
            LET g == duplicates[i]
                kept == IF dup_args.keep_first THEN g[1] ELSE g[Len(g)]
            IN  \A k \in 1..Len(g) : (g[k] \in DOMAIN folder) <=> (g[k] = kept)
        /\ \A q \in ScannedFiles :
            Cardinality(SameContent(q)) >= 2 =>
                Cardinality(SameContent(q) \cap DOMAIN folder) = 1
    /\ \A q \in ScannedFiles :
        Cardinality(SameContent(q)) = 1 => q \in DOMAIN folder

\* remove_unlabeled_images called on an existing directory
InitUnlabeled ==
    /\ LabelIdle
    /\ RunIdle
    /\ WorkerIdle
    /\ MergeIdle
    /\ DupIdle
    /\ SplitIdle
    /\ img_dir \in ImgDirSet
    /\ img_dir0 = img_dir
    /\ unl_dry_run \in BOOLEAN
    /\ upc = "start"
    /\ unl_files = <<>>
    /\ removed_count = 0
    /\ kept_count = 0

NextUnlabeled == UnlScan \/ UnlImage \/ UnlEnd

SpecUnlabeled == InitUnlabeled /\ [][NextUnlabeled]_vars

\* the image files the call found in the directory
ImagesOf(d) ==
    {n \in DOMAIN d : d[n] = "file" /\ Lower(UnlSuffix(n)) \in IMAGE_EXTENSIONS}

\* a same-stem .json exists beside the image
Annotated(d, n) == WithSuffixJson(n) \in DOMAIN d

Unannotated0 == {n \in ImagesOf(img_dir0) : ~Annotated(img_dir0, n)}

\* a deletion that fails counts its image neither as removed nor as kept
NoRemovalFailed ==
    removed_count + kept_count = Cardinality(ImagesOf(img_dir0))

\* C23: remove_unlabeled_images deletes only images of the directory that
\* have no same-stem .json beside them and changes nothing else; with
\* dry_run nothing is deleted; after a real run in which no deletion
\* failed every unannotated image is gone, so every remaining image has
\* an annotation
C23_UnlabeledRemoved ==
    /\ \A n \in DOMAIN img_dir : n \in DOMAIN img_dir0 /\ img_dir[n] = img_dir0[n]
    /\ \A n \in DOMAIN img_dir0 \ DOMAIN img_dir : n \in Unannotated0
    /\ unl_dry_run => img_dir = img_dir0
    /\ (upc = "done" /\ ~unl_dry_run /\ NoRemovalFailed) =>
           /\ DOMAIN img_dir = DOMAIN img_dir0 \ Unannotated0
           /\ \A n \in ImagesOf(img_dir) : Annotated(img_dir, n)

C23_Witness ==
    /\ upc = "done"
    /\ ~unl_dry_run
    /\ NoRemovalFailed
    /\ \E n \in ImagesOf(img_dir0) : n \notin DOMAIN img_dir
    /\ \E n \in ImagesOf(img_dir) : Annotated(img_dir0, n)

\* split_annotations called on a dataset directory without train/ and val/
InitSplit ==
    /\ LabelIdle
    /\ RunIdle
    /\ WorkerIdle
    /\ MergeIdle
    /\ DupIdle
    /\ UnlIdle
    /\ \E r \in RootSet :
        dset = [root |-> r, train |-> NoEntries, val |-> NoEntries]
    /\ dset0 = dset
    /\ split_args \in [dataset_dir : DatasetDirs,
                        manual_threshold : 1..MaxThreshold]
    /\ spc = "start"
    /\ json_files = <<>>
    /\ split_counts = NewSplitCounts

NextSplit == SplitBegin \/ SplitFile \/ SplitEnd

SpecSplit == InitSplit /\ [][NextSplit]_vars

\* the JSON files directly in the dataset directory before the call
Jsons0 == DOMAIN dset0.root \cap JsonNames

\* the file has at least one shape with points
HasPoints(c) ==
    c.parses /\ \E i \in 1..Len(c.shapes) : c.shapes[i] /= NoPoints

\* every shape with points has at most manual_threshold points
AllWithin(c) ==
    \A i \in 1..Len(c.shapes) :
        c.shapes[i] /= NoPoints => c.shapes[i] <= split_args.manual_threshold

\* the same-stem images of a JSON file before the call
ImagesBeside(j) ==
    {n \in DOMAIN dset0.root :
        n[1] = j[1] /\ \E k \in 1..Len(possible_extensions) :
                            n[2] = possible_extensions[k]}

\* the entries of dname are exactly the ones of the set ns, as before the call
InDir(dname, n) == n \in DOMAIN dset[dname] /\ dset[dname][n] = dset0.root[n]

MovedTo(dname, j) ==
    /\ InDir(dname, j)
    /\ j \notin DOMAIN dset.root
    /\ ImagesBeside(j) /= {} =>
           \E n \in ImagesBeside(j) : InDir(dname, n) /\ n \notin DOMAIN dset.root

\* C24 (as claimed): when split_annotations is done every JSON file of the
\* dataset directory with at least one shape with points is in exactly one
\* of val/ and train/, in val/ when every shape has at most
\* manual_threshold points and in train/ otherwise, with a same-stem image
\* when one exists; the files without valid annotations are in place and
\* counted as skipped.
C24_SplitAnnotations ==
    spc = "done" =>
        /\ \A j \in Jsons0 :
              IF HasPoints(dset0.root[j])
              THEN IF AllWithin(dset0.root[j])
                   THEN MovedTo("val", j) /\ j \notin DOMAIN dset.train
                   ELSE MovedTo("train", j) /\ j \notin DOMAIN dset.val
              ELSE /\ j \in DOMAIN dset.root
                   /\ dset.root[j] = dset0.root[j]
                   /\ j \notin DOMAIN dset.train \cup DOMAIN dset.val
        /\ split_counts.error =
              Cardinality({j \in Jsons0 : ~HasPoints(dset0.root[j])})

\* a split was left for a missing directory or an empty image directory
SplitLeft ==
    \E k \in 1..Len(errors) :
        errors[k].kind \in {"no_image_dir", "no_label_dir", "no_images"}

\* C25: at every point of a run total_images = total_labels +
\* missing_labels, splits left for a missing or empty directory included;
\* in the split being verified the pairs are exactly the images with a
\* same-stem label, one pair each, and the other images are the ones
\* counted as missing their label.
C25_CounterBalance ==
    /\ stats.total_images = stats.total_labels + stats.missing_labels
    /\ pc = "pool" =>
          /\ Len(image_files) = Cardinality(Recognized(dir))
          /\ Len(valid_pairs) = Cardinality(Labelled(dir))
          /\ \A k \in 1..Len(valid_pairs) : valid_pairs[k][1] \in Labelled(dir)
          /\ \A k, m \in 1..Len(valid_pairs) :
                valid_pairs[k][1] = valid_pairs[m][1] => k = m

\* a finished run that counted paired and unpaired images and left a split
C25_Witness ==
    /\ pc = "done"
    /\ stats.total_labels >= 1
    /\ stats.missing_labels >= 2
    /\ SplitLeft

\* the flags of a result agree with its lists
FlagsAgree(r) ==
    /\ r.is_invalid <=> r.errors /= <<>>
    /\ r.is_empty <=> r.warnings /= <<>>
    /\ ~(r.is_empty /\ r.is_invalid)

\* C26: every result of check_single_label, the one of a direct call and
\* the ones of the tasks of a split, has is_invalid exactly when it has
\* errors, is_empty exactly when it has warnings, and never both flags;
\* at every point of a run empty_labels + invalid_labels <= total_labels.
C26_ResultFlags ==
    /\ FlagsAgree(result)
    /\ \A i \in 1..Len(tasks) : FlagsAgree(check_single_label(TaskArgs(tasks[i])))
    /\ stats.empty_labels + stats.invalid_labels <= stats.total_labels

\* a finished run that counted an empty and an invalid label file
C26_Witness ==
    /\ pc = "done"
    /\ stats.empty_labels >= 1
    /\ stats.invalid_labels >= 1

\* the label files of the split that have a same-stem image
PairedLabels(d) == {LabelName(Stem(f)) : f \in Labelled(d)}

\* C27 (as claimed): in the split being verified each label file is
\* submitted at most once and is in exactly one pair counted in
\* total_labels, also when two images of the split share its stem.
C27_LabelOnce ==
    pc = "pool" =>
        /\ \A i, j \in 1..Len(tasks) : tasks[i] = tasks[j] => i = j
        /\ \A i, j \in 1..Len(valid_pairs) :
              valid_pairs[i][2] = valid_pairs[j][2] => i = j
        /\ Len(valid_pairs) = Cardinality(PairedLabels(dir))

\* the errors the step appended
NewErrors == SubSeq(errors', Len(errors) + 1, Len(errors'))

\* the number of cannot-open errors for image img among the errors es
OpenErrorCount(es, img) ==
    Cardinality({e \in 1..Len(es) :
                    es[e] = Msg("cannot_open", img, 0, 0, 0, "")})

\* C28 (as claimed): when the pairs of a split are prepared, a pair whose
\* image cannot be opened gets exactly one cannot-open error, its label
\* file is not among the submitted tasks, the pair is counted in
\* total_labels, and the label file of every other pair is submitted.
C28_CannotOpen ==
    [][(pc = "scan" /\ pc' = "pool") =>
         /\ stats'.total_labels = stats.total_labels + Len(valid_pairs')
         /\ \A k \in 1..Len(valid_pairs') :
               IF CannotOpen(dir', valid_pairs'[k][1])
               THEN /\ OpenErrorCount(NewErrors, valid_pairs'[k][1]) = 1
                    /\ \A t \in 1..Len(tasks') :
                          tasks'[t] /= valid_pairs'[k][2]
               ELSE \E t \in 1..Len(tasks') :
                          tasks'[t] = valid_pairs'[k][2]]_vars

====
